---- MODULE Spec2Model ----
(***************************************************************************)
(* Model of the non-GUI logic of the Scrapy Spider Manager plugins:        *)
(*   - ProxyRotatorMiddleware (plugins/proxy_rotator_plugin.py)            *)
(*   - LogAnalyzer._analyze_log_file (plugins/log_analyzer_plugin.py)      *)
(*   - SettingsAdvisor._analyze_settings (plugins/settings_advisor_plugin) *)
(***************************************************************************)
EXTENDS Integers, Sequences, FiniteSets, TLC

(***************************************************************************)
(* Bounds of the model.                                                    *)
(***************************************************************************)
MaxPool == 3
MaxFetch == 1
MaxTicks == 2
MaxTimeout == 1
MaxLines == 2
MaxStmts == 2
MaxParts == 3
MaxHistory == 2
MaxAlerts == 4
MaxCalls == 4
MaxThreads == 2
MaxReloads == 2

None == "None"

(***************************************************************************)
(* Proxy strings.  PA and PB are well-formed proxy URLs; BadScheme,        *)
(* NoHost and Comment are lines a proxy list can hold that are not.        *)
(***************************************************************************)
PA == "http://a:8080"
PB == "https://b:3128"
BadScheme == "socks5://c:1080"
NoHost == "http://:8080"
Comment == "#spare"
PExt == "http://ext:9000"

Proxy == {PA, PB}
\* The lines a remote list is drawn from, and the entries of a settings list.
Lines == {PA, PB, BadScheme, NoHost, Comment}
ListLines == {PA, PB, BadScheme, Comment}

Range(s) == {s[i] : i \in 1..Len(s)}

SeqsUpTo(S, n) == UNION {[1..k -> S] : k \in 0..n}

\* urllib.parse.urlparse, on the strings of the model: scheme, netloc and
\* hostname ("" for None).
urlparse(p) ==
  CASE p = PA -> [scheme |-> "http", netloc |-> "a:8080", hostname |-> "a"]
    [] p = PB -> [scheme |-> "https", netloc |-> "b:3128", hostname |-> "b"]
    [] p = PExt -> [scheme |-> "http", netloc |-> "ext:9000", hostname |-> "ext"]
    [] p = BadScheme -> [scheme |-> "socks5", netloc |-> "c:1080", hostname |-> "c"]
    [] p = NoHost -> [scheme |-> "http", netloc |-> ":8080", hostname |-> ""]
    [] OTHER -> [scheme |-> "", netloc |-> "", hostname |-> ""]

startswith_hash(line) == line = Comment

\* Lines 115-122: keep the entries with an http(s) scheme and a netloc.
validated_proxies(new_proxies) ==
  SelectSeq(new_proxies,
            LAMBDA p : urlparse(p).scheme \in {"http", "https"}
                       /\ urlparse(p).netloc # "")

\* Line 110: the non-blank lines of the response that do not start with '#'.
url_lines(lines) == SelectSeq(lines, LAMBDA l : l # "" /\ ~startswith_hash(l))

\* Line 94: the non-blank entries of the settings list.
list_entries(lst) == SelectSeq(lst, LAMBDA p : p # "")

\* The default of PROXY_ROTATOR_FAIL_CODES.
fail_codes == {403, 407, 429, 500, 502, 503, 504}

Statuses == {200, 503}

VARIABLES
  enabled,              \* self.enabled
  mode,                 \* self.mode
  fail_timeout,         \* self.fail_timeout
  proxy_source_type,    \* self.proxy_source_type
  url_refresh_interval, \* self.url_refresh_interval
  proxies,              \* self.proxies
  failed_proxies,       \* self.failed_proxies: proxy -> failure timestamp
  proxy_index,          \* self.proxy_index
  last_refresh_time,    \* self.last_refresh_time
  now,                  \* time.time()
  assigned,             \* proxies the middleware has put into some request's meta
  last,                 \* the last middleware call: its kind (a request, a
                        \* response or exception, none since the clock
                        \* moved), whether it reached _get_proxy (called), what
                        \* that returned (ret), whether it found no entry
                        \* available and cleared the failure map (cleared),
                        \* whether it dropped an expired failure (expired),
                        \* how the fetch of its reload ended (fetch),
                        \* whether _load_proxies left the pool and the index
                        \* as they were (kept); for a response or exception,
                        \* the '_proxy_rotator_current' of its request
                        \* (current) and whether the status or exception
                        \* counts as a failure (failing), and for a request
                        \* the '_proxy_rotator_current' it came with; the
                        \* entries the
                        \* failure map gained (gained) and whether it lost
                        \* one (lost); for a request, whether it came without
                        \* a proxy (bare)
  run,                  \* results of the current streak of sequential selections
  \* LogAnalyzer._analyze_log_file: one call at a time
  log_pc,               \* "idle", "reading", "returned" or "raised"
  log_read,             \* the lines of the file read so far in this call
  in_stats_dump,        \* the local flag
  errors,               \* results['errors']: message -> count
  warnings,             \* results['warnings']: message -> count
  raw_stats,            \* results['stats']['raw_stats']: key -> value
  status_codes,         \* results['stats']['status_codes']: code -> count
  summary,              \* results['summary']
  first,                \* the first call that ended: its text and results
  \* SettingsAdvisor._analyze_settings
  content,              \* the text of the project's settings.py
  results,              \* what the last analysis of that text handed back
  \* file API: list_or_get_file
  layout,               \* how the project directory is laid out on disk
  api_request,          \* the last request: project name and sub-path
  api_response,         \* the answer to it
  \* AlertManager
  alert_config,         \* self.config: enabled, alert_history_max and the
                        \* spider names its blacklist patterns match
  alert_history,        \* self.alert_history
  alert_count,          \* how many alert records have been created so far
  alert_last,           \* the last operation on the manager, the history it
                        \* found and the record it created
  \* SpiderAnalyticsPlugin
  analytics_data,       \* self.analytics_data: spider name -> list of run records
  analytics_file,       \* whether the JSON file holds analytics_data
  hook_calls,           \* how many hook calls have been made
  hook_last,            \* the last hook call, its arguments and the data it found
  \* threads inside _refresh_proxies_if_needed
  th_pc,                \* where each thread is: "idle" (outside), "acquire"
                        \* (line 141), "locked" (line 143), "loading" (inside
                        \* _load_proxies, the fetch in flight), "release"
  th_now,               \* the local variable now of each thread (line 139)
  refresh_lock,         \* self.refresh_lock: the set of the thread holding it
  th_refused,           \* the threads whose last acquire found the lock taken
  reloads,              \* how the fetches started since last_refresh_time
                        \* last changed have ended (the last MaxReloads of them)
  \* SnippetManagerPane
  snippets,             \* self.snippets: category -> list of snippet dicts
  snippets_file,        \* whether config/snippets.json holds self.snippets
  snip_last,            \* the last operation of the pane, the snippets it
                        \* found, the place of the snippet it was about and
                        \* whether it raised
  \* the e-mail queue and worker thread of every AlertManager created so far
  managers,             \* the managers in the order of their creation, the
                        \* last one the plugin's alert_manager: the e-mail
                        \* switch of its config, its email_queue, its
                        \* email_thread_running, where its worker thread is
                        \* ("none", "check" at line 331, "get" at line 335,
                        \* "send" at line 341, "exited") and the task it holds
  queued,               \* the e-mail tasks put on a queue so far (line 571)
  sent,                 \* the tasks passed to _send_email so far (line 341)
  \* EmailNotifierWidget: the manual Send Email action
  dialog_pc,            \* where _run_task_with_dialog is: "idle" (not called),
                        \* "first" (inside dialog.exec() of line 585) or
                        \* "second" (inside dialog.exec() of line 601)
  task_threads,         \* the EmailTaskThreads started so far: the action
                        \* that started each, its task_data, and whether it
                        \* is "running" or "finished"
  send_actions,         \* how many Send Email actions reached
                        \* _run_task_with_dialog
  smtp_sent             \* the action of every message handed to
                        \* server.sendmail (line 123), in order

proxy_vars == <<enabled, mode, fail_timeout, proxy_source_type,
                url_refresh_interval, proxies, failed_proxies, proxy_index,
                last_refresh_time, now, assigned, last, run>>

log_vars == <<log_pc, log_read, in_stats_dump, errors, warnings, raw_stats,
              status_codes, summary, first>>

settings_vars == <<content, results>>

file_vars == <<layout, api_request, api_response>>

alert_vars == <<alert_config, alert_history, alert_count, alert_last>>

analytics_vars == <<analytics_data, analytics_file, hook_calls, hook_last>>

thread_vars == <<th_pc, th_now, refresh_lock, th_refused, reloads>>

snippet_vars == <<snippets, snippets_file, snip_last>>

email_vars == <<managers, queued, sent>>

notifier_vars == <<dialog_pc, task_threads, send_actions, smtp_sent>>

vars == <<proxy_vars, log_vars, settings_vars, file_vars, alert_vars,
          analytics_vars, thread_vars,
    snippet_vars,
    email_vars,
    notifier_vars>>

\* The variables of the other components.
not_proxy_vars ==
  <<log_vars, settings_vars, file_vars, alert_vars, analytics_vars, thread_vars,
    snippet_vars,
    email_vars,
    notifier_vars>>
not_log_vars ==
  <<proxy_vars, settings_vars, file_vars, alert_vars, analytics_vars, thread_vars,
    snippet_vars,
    email_vars,
    notifier_vars>>
not_settings_vars ==
  <<proxy_vars, log_vars, file_vars, alert_vars, analytics_vars, thread_vars,
    snippet_vars,
    email_vars,
    notifier_vars>>
not_file_vars ==
  <<proxy_vars, log_vars, settings_vars, alert_vars, analytics_vars, thread_vars,
    snippet_vars,
    email_vars,
    notifier_vars>>
not_analytics_vars ==
  <<proxy_vars, log_vars, settings_vars, file_vars, alert_vars, thread_vars,
    snippet_vars,
    email_vars,
    notifier_vars>>
\* What a thread inside _refresh_proxies_if_needed leaves alone.
not_thread_vars ==
  <<log_vars, settings_vars, file_vars, alert_vars, analytics_vars,
    enabled, mode, fail_timeout, proxy_source_type, url_refresh_interval,
    failed_proxies, assigned, last, run,
    snippet_vars,
    email_vars,
    notifier_vars>>
not_alert_vars ==
  <<proxy_vars, log_vars, settings_vars, file_vars, analytics_vars, thread_vars,
    snippet_vars,
    email_vars,
    notifier_vars>>

not_snippet_vars ==
  <<proxy_vars, log_vars, settings_vars, file_vars, alert_vars, analytics_vars, thread_vars,
    email_vars,
    notifier_vars>>

\* What the alert manager and its e-mail worker leave alone.
not_alert_email_vars ==
  <<proxy_vars, log_vars, settings_vars, file_vars, analytics_vars, thread_vars, snippet_vars,
    notifier_vars>>

not_notifier_vars ==
  <<proxy_vars, log_vars, settings_vars, file_vars, alert_vars, analytics_vars, thread_vars, snippet_vars, email_vars>>

config == <<enabled, mode, fail_timeout, proxy_source_type, url_refresh_interval>>

\* PROXY_ROTATOR_URL_REFRESH_MINUTES, in time units: no refresh, or a refresh
\* once more than one time unit has passed.
RefreshIntervals == {0, 1}

\* Wall-clock time at construction; any refresh interval has long elapsed
\* since time 0, the initial value of last_refresh_time.
StartTime == 2

EmptyMap == [p \in {} |-> 0]

NoMeta == [proxy |-> None, current |-> None]

\* What a remote fetch (lines 108-110) can produce.
NoFetch == [kind |-> "none", lines |-> <<>>]

\* requests.get or raise_for_status raises a requests.RequestException, or
\* an exception of another class (an OSError for a missing CA bundle), or
\* the response text is read.
FetchOutcomes ==
  {[kind |-> "RequestException", lines |-> <<>>],
   [kind |-> "Exception", lines |-> <<>>]}
    \cup {[kind |-> "ok", lines |-> s] : s \in SeqsUpTo(Lines, MaxFetch)}

\* What the fetch of __init__ (line 82) can produce: as any fetch, or a list
\* of two proxies, which a later refresh can shrink.
FirstFetchOutcomes == FetchOutcomes \cup {[kind |-> "ok", lines |-> <<PA, PB>>]}

\* The settings lists PROXY_ROTATOR_PROXY_LIST can hold.
ListSettings == {[kind |-> "list", lines |-> s] : s \in SeqsUpTo(ListLines, MaxPool)}

Min(S) == CHOOSE x \in S : \A y \in S : x <= y

\* list.index(x): the position of the first occurrence (1-based here).
IndexOf(s, x) == CHOOSE i \in 1..Len(s) : s[i] = x /\ \A j \in 1..(i - 1) : s[j] # x

(***************************************************************************)
(* _load_proxies.  old is the triple (proxies, proxy_index,                *)
(* last_refresh_time) before the call, input what the source delivers:     *)
(* the settings list, or the outcome of requests.get for the URL source.   *)
(***************************************************************************)
load_proxies(old, source, input, t) ==
  IF source = "url" /\ input.kind = "RequestException"
  THEN old   \* line 132: logged; raised before line 113
  ELSE IF source = "url" /\ input.kind = "Exception"
  THEN [old EXCEPT !.proxies = <<>>]   \* line 134
  ELSE
    LET new_proxies == IF source = "url" THEN url_lines(input.lines)
                       ELSE list_entries(input.lines)
        lrt == IF source = "url" THEN t ELSE old.last_refresh_time
        valid == validated_proxies(new_proxies)
    IN IF valid # <<>>
       THEN [proxies |-> valid, proxy_index |-> 0, last_refresh_time |-> lrt]
       ELSE [proxies |-> <<>>, proxy_index |-> old.proxy_index,
             last_refresh_time |-> lrt]

\* The condition of lines 137-143 with the lock free (one caller at a time).
refresh_due ==
  /\ proxy_source_type = "url"
  /\ url_refresh_interval # 0
  /\ now - last_refresh_time > url_refresh_interval

refresh_proxies_if_needed(outcome) ==
  LET old == [proxies |-> proxies, proxy_index |-> proxy_index,
              last_refresh_time |-> last_refresh_time]
  IN IF refresh_due THEN load_proxies(old, "url", outcome, now) ELSE old

\* Mutant: an entry is dropped one time unit late.
clear_expired_late(failed) ==
  IF fail_timeout = 0 THEN failed
  ELSE LET keep == {p \in DOMAIN failed : ~(now - failed[p] > fail_timeout + 1)}
       IN [p \in keep |-> failed[p]]

\* Mutant: an entry is dropped as soon as its age reaches the cooldown.
clear_expired_early(failed) ==
  IF fail_timeout = 0 THEN failed
  ELSE LET keep == {p \in DOMAIN failed : ~(now - failed[p] >= fail_timeout)}
       IN [p \in keep |-> failed[p]]

\* _clear_expired_failures on a failure map.
clear_expired_failures(failed) ==
  IF fail_timeout = 0 THEN failed
  ELSE LET keep == {p \in DOMAIN failed : ~(now - failed[p] > fail_timeout)}
       IN [p \in keep |-> failed[p]]

\* Mutant: a failure is not recorded.
mark_nothing(proxy) == failed_proxies

\* _mark_failed: the failure map after marking proxy at the current time.
mark_failed(proxy) ==
  IF proxy # None
  THEN [p \in DOMAIN failed_proxies \cup {proxy} |->
          IF p = proxy THEN now ELSE failed_proxies[p]]
  ELSE failed_proxies

\* Mutant: the failure map is not cleared.
clear_all_kept(failed) == failed

\* Line 157: self.failed_proxies.clear().
clear_all(failed) == EmptyMap

\* Mutant: the failure map is ignored.
available_of_all(pool, failed) == pool

\* Line 154: the pool entries not in the failure map.
available_of(pool, failed) == SelectSeq(pool, LAMBDA p : p \notin DOMAIN failed)

\* Lines 162-168: the first non-failed entry at or after the index, or None.
sequential_walk(pool, idx, failed) ==
  LET n == Len(pool)
      start_index == idx % n
      hits == {i \in 0..(n - 1) :
                 pool[((start_index + i) % n) + 1] \notin DOMAIN failed}
  IN IF hits = {} THEN None ELSE pool[((start_index + Min(hits)) % n) + 1]

\* Mutant: the index is not reduced modulo the pool size.
next_index_unwrapped(pool, selected) == (IndexOf(pool, selected) - 1) + 1

\* Lines 167 and 172: the index after selecting selected.
next_index(pool, selected) == ((IndexOf(pool, selected) - 1) + 1) % Len(pool)

(***************************************************************************)
(* _get_proxy past its first guard (the pool is not empty at the call), up *)
(* to the selection: lines 152-159 and the sequential walk of lines        *)
(* 162-168.  outcome is what a refresh would fetch.                        *)
(***************************************************************************)
before_choice(outcome) ==
  LET r == refresh_proxies_if_needed(outcome)
      f1 == clear_expired_failures(failed_proxies)
      avail1 == available_of(r.proxies, f1)
      cleared == avail1 = <<>>
      f2 == IF cleared THEN clear_all(f1) ELSE f1
      available == IF cleared THEN r.proxies ELSE avail1
  IN [proxies |-> r.proxies, proxy_index |-> r.proxy_index,
      last_refresh_time |-> r.last_refresh_time,
      failed_proxies |-> f2, cleared |-> cleared,
      expired |-> DOMAIN failed_proxies # DOMAIN f1,
      available |-> available,
      walk |-> IF available # <<>> /\ mode = "sequential"
               THEN sequential_walk(r.proxies, r.proxy_index, f2)
               ELSE None]

\* _get_proxy: choice is what random.choice picks where it is called (lines
\* 170 and 176).
get_proxy(outcome, choice) ==
  LET b == before_choice(outcome)
      selected == IF b.available = <<>> THEN None
                  ELSE IF mode = "sequential" /\ b.walk # None THEN b.walk
                  ELSE choice
  IN [proxies |-> b.proxies, last_refresh_time |-> b.last_refresh_time,
      failed_proxies |-> b.failed_proxies, cleared |-> b.cleared,
      expired |-> b.expired, ret |-> selected,
      proxy_index |-> IF mode = "sequential" /\ selected # None
                      THEN next_index(b.proxies, selected)
                      ELSE b.proxy_index]

NoRun == [start |-> 0, rets |-> <<>>]

Neutral(op) == [op |-> op, called |-> FALSE, ret |-> None, cleared |-> FALSE,
                expired |-> FALSE, fetch |-> "none", kept |-> TRUE,
                current |-> None, failing |-> FALSE, gained |-> {}, lost |-> FALSE,
                bare |-> FALSE]

\* The proxies whose entry of the failure map is new or has a new timestamp.
gained_in(old, new) ==
  {p \in DOMAIN new : p \notin DOMAIN old \/ new[p] # old[p]}

\* Lines 196-199: the meta of the request after process_request.
meta_out(meta, ret) == IF ret # None THEN [proxy |-> ret, current |-> ret]
                       ELSE meta

\* The metas a request can carry into the middleware: none, a proxy set by
\* the spider, or (a retried request) a proxy the middleware assigned before.
RequestMetas ==
  {NoMeta, [proxy |-> PExt, current |-> None]}
    \cup {[proxy |-> p, current |-> p] : p \in assigned}

\* The metas of the requests whose response or exception can arrive: no
\* proxy, a proxy set by the spider, or a proxy the middleware assigned.
ResponseMetas ==
  {NoMeta, [proxy |-> PExt, current |-> None]}
    \cup {[proxy |-> p, current |-> p] : p \in assigned}

\* The streak of sequential selections with no failure and no reload.
run_after(g) ==
  IF mode = "sequential" /\ failed_proxies = EmptyMap /\ ~refresh_due
     /\ g.ret # None
  THEN IF Len(run.rets) >= Len(proxies) \/ run.rets = <<>>
       THEN [start |-> proxy_index, rets |-> <<g.ret>>]
       ELSE [run EXCEPT !.rets = Append(@, g.ret)]
  ELSE NoRun

(***************************************************************************)
(* process_request (lines 193-200).                                        *)
(***************************************************************************)
\* What requests.get is asked for: nothing unless a refresh is due.
FetchesNow == IF refresh_due THEN FetchOutcomes ELSE {NoFetch}

\* What random.choice can return in a call that fetches outcome: nothing in
\* a sequential walk that finds an entry, else any available entry.
ChoicesNow(outcome) ==
  LET b == before_choice(outcome)
  IN IF b.available = <<>> \/ (mode = "sequential" /\ b.walk # None)
     THEN {None}
     ELSE Range(b.available)

\* Mutant: a proxy already in the meta does not stop process_request.
CallsGetProxyWithProxy(meta) == enabled /\ proxies # <<>>

\* Line 194: whether process_request gets as far as _get_proxy.
CallsGetProxy(meta) == enabled /\ proxies # <<>> /\ meta.proxy = None

ProcessRequest(meta, outcome, choice) ==
  IF ~CallsGetProxy(meta)
  THEN /\ last' = [Neutral("request") EXCEPT !.bare = meta.proxy = None,
                                                !.current = meta.current]
       /\ UNCHANGED <<config, proxies, failed_proxies, proxy_index,
                      last_refresh_time, now, assigned, run>>
  ELSE \E g \in {get_proxy(outcome, choice)} :
          /\ outcome \in FetchesNow
          /\ choice \in ChoicesNow(outcome)
          /\ proxies' = g.proxies
          /\ proxy_index' = g.proxy_index
          /\ last_refresh_time' = g.last_refresh_time
          /\ failed_proxies' = g.failed_proxies
          /\ assigned' = assigned \cup ({meta_out(meta, g.ret).current} \ {None})
          /\ last' = [op |-> "request", called |-> TRUE, ret |-> g.ret,
                      cleared |-> g.cleared, expired |-> g.expired,
                      fetch |-> outcome.kind,
                      kept |-> LET r == refresh_proxies_if_needed(outcome)
                               IN r.proxies = proxies /\ r.proxy_index = proxy_index,
                      current |-> meta.current, failing |-> FALSE,
                      gained |-> gained_in(failed_proxies, g.failed_proxies),
                      lost |-> FALSE, bare |-> meta.proxy = None]
          /\ run' = run_after(g)
          /\ UNCHANGED <<config, now>>

(***************************************************************************)
(* process_response (lines 202-209).                                       *)
(***************************************************************************)
ProcessResponse(meta, status) ==
  /\ failed_proxies' = IF enabled /\ status \in fail_codes
                       THEN mark_failed(meta.current) ELSE failed_proxies
  /\ last' = [Neutral("reply") EXCEPT
                !.current = meta.current,
                !.failing = status \in fail_codes,
                !.gained = gained_in(failed_proxies, failed_proxies'),
                !.lost = DOMAIN failed_proxies \ DOMAIN failed_proxies' # {}]
  /\ run' = NoRun
  /\ UNCHANGED <<config, proxies, proxy_index, last_refresh_time, now, assigned>>

\* Exceptions: their class and whether str(exception) holds a keyword.
Exceptions ==
  {[cls |-> "requests.ProxyError", text |-> "cannot connect"],
   [cls |-> "twisted.TCPTimedOutError", text |-> "tcp"],
   [cls |-> "ValueError", text |-> "read timeout"],
   [cls |-> "ValueError", text |-> "bad value"]}

\* Lines 218-242.
is_proxy_error(exception) ==
  \/ exception.cls = "requests.ProxyError"
  \/ exception.cls \in {"twisted.ConnectionRefusedError", "twisted.TCPTimedOutError",
                        "twisted.ConnectionLost", "twisted.ConnectionDone",
                        "twisted.TimeoutError"}
  \/ exception.text \in {"proxy down", "read timeout", "connection refused"}

(***************************************************************************)
(* process_exception (lines 213-251).                                      *)
(***************************************************************************)
ProcessException(meta, exception) ==
  /\ failed_proxies' = IF enabled /\ is_proxy_error(exception)
                       THEN mark_failed(meta.current) ELSE failed_proxies
  /\ last' = [Neutral("reply") EXCEPT
                !.current = meta.current,
                !.failing = is_proxy_error(exception),
                !.gained = gained_in(failed_proxies, failed_proxies'),
                !.lost = DOMAIN failed_proxies \ DOMAIN failed_proxies' # {}]
  /\ run' = NoRun
  /\ UNCHANGED <<config, proxies, proxy_index, last_refresh_time, now, assigned>>

\* The clock advances between calls.
Tick ==
  /\ now < StartTime + MaxTicks
  /\ now' = now + 1
  /\ last' = Neutral("idle")
  /\ UNCHANGED <<config, proxies, failed_proxies, proxy_index,
                 last_refresh_time, assigned, run>>

(***************************************************************************)
(* The log analyzer before its first call.                                 *)
(***************************************************************************)
\* A dict or defaultdict with no key.
EmptyTable == [k \in {} |-> 0]

\* results['summary'] before the summary is computed (line 283).
NoSummary == [set |-> FALSE]

\* No call has ended yet.
NoFirst == [set |-> FALSE, log |-> <<>>, out |-> [status |-> "none"],
            others |-> FALSE]

\* No call of _analyze_log_file has been made.
LogIdle ==
  /\ log_pc = "idle"
  /\ log_read = <<>>
  /\ in_stats_dump = FALSE
  /\ errors = EmptyTable
  /\ warnings = EmptyTable
  /\ raw_stats = EmptyTable
  /\ status_codes = EmptyTable
  /\ summary = NoSummary
  /\ first = NoFirst

(***************************************************************************)
(* The settings advisor before its first analysis.                         *)
(***************************************************************************)
NoResults == [status |-> "none", warnings |-> <<>>, recommendations |-> <<>>,
              info |-> <<>>]

\* An empty settings.py, not analysed yet.
SettingsIdle ==
  /\ content = <<>>
  /\ results = NoResults

(***************************************************************************)
(* The file API before its first request.                                  *)
(***************************************************************************)
NoRequest == [project |-> "", sub_path |-> <<>>]

NoResponse == [status |-> 0, body |-> "none", target |-> <<>>]

\* A project laid out the standard way, and no request served yet.
FilesIdle ==
  /\ layout = "nested"
  /\ api_request = NoRequest
  /\ api_response = NoResponse

\* A project whose middleware is switched off and has no pool.
ProxyOff ==
  /\ enabled = FALSE
  /\ mode = "random"
  /\ fail_timeout = 0
  /\ proxy_source_type = "list"
  /\ url_refresh_interval = 1
  /\ proxies = <<>>
  /\ failed_proxies = EmptyMap
  /\ proxy_index = 0
  /\ last_refresh_time = 0
  /\ now = StartTime
  /\ assigned = {}
  /\ last = Neutral("idle")
  /\ run = NoRun

\* DEFAULT_CONFIG (lines 30-73) with a small history, and a manager that has
\* seen no alert.
DefaultAlertConfig == [enabled |-> TRUE, alert_history_max |-> 1, blacklisted |-> {}]

NoAlert == [n |-> 0, spider_name |-> ""]

NoAlertCall == [op |-> "init", before |-> <<>>, made |-> NoAlert]

AlertsIdle ==
  /\ alert_config = DefaultAlertConfig
  /\ alert_history = <<>>
  /\ alert_count = 0
  /\ alert_last = NoAlertCall

\* SpiderAnalyticsPlugin.__init__ (line 426) with no analytics file on disk
\* (lines 632-635).
NoHook == [op |-> "none", spider_name |-> "", run_id |-> None, before |-> EmptyMap]

AnalyticsIdle ==
  /\ analytics_data = EmptyMap
  /\ analytics_file = "absent"
  /\ hook_calls = 0
  /\ hook_last = NoHook

\* No thread is inside _refresh_proxies_if_needed; the lock of line 60 is free.
ThreadsIdle ==
  /\ th_pc = [t \in 1..MaxThreads |-> "idle"]
  /\ th_now = [t \in 1..MaxThreads |-> 0]
  /\ refresh_lock = {}
  /\ th_refused = {}
  /\ reloads = <<>>

\* DEFAULT_SNIPPETS (lines 32-91): three of them, in two categories.
DefaultSnippets ==
  <<[id |-> "css_basic_get", name |-> "Basic CSS Selector (.get)",
     category |-> "Selectors"],
    [id |-> "css_basic_getall", name |-> "Basic CSS Selector (.getall)",
     category |-> "Selectors"],
    [id |-> "item_field", name |-> "Item Field Definition", category |-> "Items"]>>

NoSnippetCall == [op |-> "none", before |-> EmptyMap, category |-> "",
                  position |-> 0, raised |-> FALSE]

\* SnippetManagerPane.__init__ (lines 192-200) with no snippets file:
\* _load_snippets takes the defaults, writes the file while self.snippets is
\* still empty (line 301) and groups the defaults by category (lines 304-311).
SnippetsIdle ==
  /\ snippets = [c \in {"Selectors", "Items"} |->
                   SelectSeq(DefaultSnippets, LAMBDA s : s.category = c)]
  /\ snippets_file = "stale"
  /\ snip_last = NoSnippetCall

\* AlertManager.__init__ (lines 259-272): an empty queue, and a worker thread
\* when the configuration switches e-mail on.
new_manager(email) ==
  [email |-> email, email_queue |-> <<>>, email_thread_running |-> email,
   email_thread |-> IF email THEN "check" ELSE "none", task |-> 0]

\* The manager of the default configuration (line 36: e-mail off), and no
\* e-mail queued.
EmailIdle ==
  /\ managers = <<new_manager(FALSE)>>
  /\ queued = <<>>
  /\ sent = <<>>

\* EmailNotifierWidget.__init__: no action yet, no thread, nothing sent.
NotifierIdle ==
  /\ dialog_pc = "idle"
  /\ task_threads = <<>>
  /\ send_actions = 0
  /\ smtp_sent = <<>>

\* Every component but one before its first operation.
IdleButProxy ==
  LogIdle /\ SettingsIdle /\ FilesIdle /\ AlertsIdle /\ AnalyticsIdle /\ ThreadsIdle /\ SnippetsIdle /\ EmailIdle /\ NotifierIdle
IdleButLog ==
  ProxyOff /\ SettingsIdle /\ FilesIdle /\ AlertsIdle /\ AnalyticsIdle /\ ThreadsIdle /\ SnippetsIdle /\ EmailIdle /\ NotifierIdle
IdleButSettings ==
  ProxyOff /\ LogIdle /\ FilesIdle /\ AlertsIdle /\ AnalyticsIdle /\ ThreadsIdle /\ SnippetsIdle /\ EmailIdle /\ NotifierIdle
IdleButFiles ==
  ProxyOff /\ LogIdle /\ SettingsIdle /\ AlertsIdle /\ AnalyticsIdle /\ ThreadsIdle /\ SnippetsIdle /\ EmailIdle /\ NotifierIdle
IdleButAnalytics ==
  ProxyOff /\ LogIdle /\ SettingsIdle /\ FilesIdle /\ AlertsIdle /\ ThreadsIdle /\ SnippetsIdle /\ EmailIdle /\ NotifierIdle
IdleButAlerts ==
  ProxyOff /\ LogIdle /\ SettingsIdle /\ FilesIdle /\ AnalyticsIdle /\ ThreadsIdle /\ SnippetsIdle /\ EmailIdle /\ NotifierIdle
IdleButSnippets ==
  ProxyOff /\ LogIdle /\ SettingsIdle /\ FilesIdle /\ AlertsIdle /\ AnalyticsIdle /\ ThreadsIdle /\ EmailIdle /\ NotifierIdle
IdleButAlertsAndEmail ==
  ProxyOff /\ LogIdle /\ SettingsIdle /\ FilesIdle /\ AnalyticsIdle /\ ThreadsIdle /\ SnippetsIdle /\ NotifierIdle
IdleButNotifier ==
  ProxyOff /\ LogIdle /\ SettingsIdle /\ FilesIdle /\ AlertsIdle /\ AnalyticsIdle /\ ThreadsIdle /\ SnippetsIdle /\ EmailIdle

(***************************************************************************)
(* __init__ (lines 54-82): the settings are read, and an enabled           *)
(* middleware loads its pool once.                                         *)
(***************************************************************************)
Init ==
  /\ enabled \in BOOLEAN
  /\ mode \in {"random", "sequential"}
  /\ fail_timeout \in 0..MaxTimeout
  /\ proxy_source_type \in {"list", "url"}
  /\ url_refresh_interval \in RefreshIntervals
  /\ proxy_source_type = "list" => url_refresh_interval = 1
  /\ now = StartTime
  /\ \E input \in IF proxy_source_type = "url" THEN FirstFetchOutcomes
                   ELSE ListSettings :
       LET fresh == [proxies |-> <<>>, proxy_index |-> 0, last_refresh_time |-> 0]
           l == IF enabled
                THEN load_proxies(fresh, proxy_source_type, input, StartTime)
                ELSE fresh
       IN /\ proxies = l.proxies
          /\ proxy_index = l.proxy_index
          /\ last_refresh_time = l.last_refresh_time
  /\ failed_proxies = EmptyMap
  /\ assigned = {}
  /\ last = Neutral("idle")
  /\ run = NoRun
  /\ IdleButProxy

RequestStep ==
  /\ \E meta \in RequestMetas :
       IF CallsGetProxy(meta)
       THEN \E outcome \in FetchesNow : \E choice \in ChoicesNow(outcome) :
              ProcessRequest(meta, outcome, choice)
       ELSE ProcessRequest(meta, NoFetch, None)
  /\ UNCHANGED not_proxy_vars

ResponseStep ==
  /\ \E meta \in ResponseMetas, status \in Statuses : ProcessResponse(meta, status)
  /\ UNCHANGED not_proxy_vars

ExceptionStep ==
  /\ \E meta \in ResponseMetas, exception \in Exceptions :
       ProcessException(meta, exception)
  /\ UNCHANGED not_proxy_vars

TickStep == Tick /\ UNCHANGED not_proxy_vars

Next == RequestStep \/ ResponseStep \/ ExceptionStep \/ TickStep

Spec == Init /\ [][Next]_vars

(***************************************************************************)
(* Properties of the proxy rotation middleware.                            *)
(***************************************************************************)

\* The cooldown of p's failure entry has elapsed (line 187).
Elapsed(p) == now - failed_proxies[p] > fail_timeout

\* C1: when _get_proxy finds at least one pool entry outside the failure map
\* (after expired failures were cleared), it returns an entry of the pool that
\* is not in the failure map, in random and in sequential mode.
C1_NeverReturnsFailed ==
  (last.called /\ ~last.cleared)
    => /\ last.ret # None
       /\ last.ret \in Range(proxies)
       /\ last.ret \notin DOMAIN failed_proxies

\* A selection was made while another pool entry was in the failure map.
C1_Witness ==
  /\ last.called /\ ~last.cleared /\ last.ret # None
  /\ \E p \in Range(proxies) : p \in DOMAIN failed_proxies

\* C2 as stated: if every entry of a non-empty pool is in the failure map when
\* _get_proxy is called, the call empties the failure map and returns an entry
\* of the pool.
C2_Original ==
  [][(last'.called /\ proxies # <<>>
        /\ \A p \in Range(proxies) : p \in DOMAIN failed_proxies)
       => (failed_proxies' = EmptyMap /\ last'.ret \in Range(proxies'))]_vars

\* C2 amended: if the pool is non-empty and none of its entries is available
\* when _get_proxy computes the available subset (after a due refresh and after
\* expired failures were cleared), the call empties the failure map and returns
\* an entry of the pool, never None, in both modes.
C2_ClearAllWhenNoneAvailable ==
  (last.called /\ last.cleared /\ proxies # <<>>)
    => (failed_proxies = EmptyMap /\ last.ret \in Range(proxies))

\* A call found every entry of a pool of two or more failed, and returned one.
C2_Witness ==
  /\ last.called /\ last.cleared /\ ~last.expired
  /\ Len(proxies) >= 2 /\ last.ret \in Range(proxies)

\* C3 as stated: for every cooldown >= 0, after a _get_proxy call no entry
\* whose cooldown has elapsed is still excluded (still in the failure map).
C3_Original ==
  last.called => \A p \in DOMAIN failed_proxies : ~Elapsed(p)

\* C3 amended: for every cooldown > 0, after a _get_proxy call no entry whose
\* cooldown has elapsed is still in the failure map; a cooldown of 0 disables
\* the expiry.
C3_ExpiredNotExcluded ==
  (last.called /\ fail_timeout > 0)
    => \A p \in DOMAIN failed_proxies : ~Elapsed(p)

\* A call dropped an expired failure entry and kept one that has not expired.
C3_Witness ==
  /\ last.called /\ last.expired /\ ~last.cleared
  /\ failed_proxies # EmptyMap

\* C4 as stated: a failure entry whose cooldown has not elapsed stays in the
\* failure map, and its proxy is not returned by _get_proxy.
C4_Original ==
  [][\A p \in DOMAIN failed_proxies :
       ~Elapsed(p)
         => /\ p \in DOMAIN failed_proxies'
            /\ ~(last'.called /\ last'.ret = p)]_vars

\* C4 amended: except in a _get_proxy call that finds no pool entry available
\* and clears the whole failure map, a failure entry whose cooldown has not
\* elapsed stays in the failure map and its proxy is not returned.
C4_ExcludedUntilCooldownOrClearAll ==
  [][\A p \in DOMAIN failed_proxies :
       (~Elapsed(p) /\ ~(last'.called /\ last'.cleared))
         => /\ p \in DOMAIN failed_proxies'
            /\ ~(last'.called /\ last'.ret = p)]_vars

\* A call passed over a pool entry whose cooldown has not elapsed.
C4_Witness ==
  /\ last.called /\ ~last.cleared /\ last.ret # None /\ fail_timeout > 0
  /\ \E p \in Range(proxies) : p \in DOMAIN failed_proxies /\ ~Elapsed(p)

\* The pool read from position idx (0-based) on, wrapping around.
Rotation(pool, idx) ==
  [i \in 1..Len(pool) |-> pool[((idx + i - 1) % Len(pool)) + 1]]

\* C5: in sequential mode, N consecutive selections with no proxy failed and
\* no reload, N the pool size, return the pool in order from the index the
\* streak started at, wrapping around.
C5_SequentialFairness ==
  (run.rets # <<>> /\ Len(run.rets) = Len(proxies))
    => run.rets = Rotation(proxies, run.start)

\* C10: with an empty pool, process_request, process_response and
\* process_exception leave the failure map, proxy_index and the request's meta
\* unchanged.
C10_NoPoolNoOp ==
  [][(proxies = <<>> /\ last'.op \in {"request", "reply"})
       => /\ failed_proxies' = failed_proxies
          /\ proxy_index' = proxy_index
          /\ assigned' = assigned
          /\ last'.ret = None]_vars

\* C11: a load or refresh whose fetch of the remote list fails, with whatever
\* exception, leaves the pool and proxy_index as they were before
\* _load_proxies.
C11_FailedFetchKeepsPool ==
  last.fetch \in {"RequestException", "Exception"} => last.kept

\* C19: the failure map gains or refreshes an entry exactly when a response
\* with a status of the fail set, or an exception recognised as a proxy
\* error, arrives for a request to which the middleware assigned a proxy: the
\* entry is that proxy's, with the current time.  Every other response or
\* exception, and every reply to a request without an assigned proxy, leaves
\* the map as it was, and process_request adds no entry.
C19_FailureDetection ==
  /\ last.op = "request" => last.gained = {}
  /\ last.op = "reply" =>
       /\ ~last.lost
       /\ IF last.failing /\ last.current # None
          THEN /\ last.current \in assigned
               /\ last.gained \subseteq {last.current}
               /\ last.current \in DOMAIN failed_proxies
               /\ failed_proxies[last.current] = now
          ELSE last.gained = {}

\* A failing response marked the proxy assigned to its request while another
\* proxy was already in the map.
C19_Witness ==
  /\ last.op = "reply"
  /\ last.failing
  /\ last.current # None
  /\ last.gained = {last.current}
  /\ DOMAIN failed_proxies # {last.current}

\* C20: with the URL source and a positive refresh interval, once more than
\* the interval has elapsed since the last refresh, a process_request for a
\* request without a proxy attempts a reload of the remote list, in every
\* reachable state.
C20_RefreshOnTimer ==
  [][(enabled /\ refresh_due /\ last'.op = "request" /\ last'.bare)
       => last'.fetch # "none"]_vars

\* C21: process_request for a request whose meta already has 'proxy' (a proxy
\* set by the spider, or the proxy of an earlier attempt that is now in the
\* failure map) does not reach _get_proxy and leaves the request's meta, the
\* pool, the failure map and proxy_index as they were.
C21_ProxyAlreadySet ==
  [][(last'.op = "request" /\ ~last'.bare)
       => /\ ~last'.called
          /\ last'.ret = None
          /\ assigned' = assigned
          /\ proxies' = proxies
          /\ failed_proxies' = failed_proxies
          /\ proxy_index' = proxy_index]_vars

\* A retried request came back with the proxy of its earlier attempt, which
\* is in the failure map of an enabled middleware with a pool.
C21_Witness ==
  /\ last.op = "request" /\ ~last.bare
  /\ enabled /\ proxies # <<>>
  /\ last.current \in DOMAIN failed_proxies
  /\ last.current \in Range(proxies)

\* The offsets from the index start at which the pool holds an entry that is
\* not in the failure map.
FreeOffsets(pool, start, failed) ==
  {i \in 0..(Len(pool) - 1) : pool[((start + i) % Len(pool)) + 1] \notin DOMAIN failed}

\* C22: in sequential mode with some pool entry in the failure map, a
\* _get_proxy call that makes no reload returns the first entry at or after
\* proxy_index (wrapping around once) that is not in the failure map, and
\* leaves proxy_index at one past the position of that entry, modulo the
\* pool size.
C22_SequentialWalk ==
  [][(mode = "sequential" /\ last'.called /\ last'.fetch = "none"
        /\ \E p \in Range(proxies) : p \in DOMAIN failed_proxies)
       => LET n == Len(proxies)
              start == proxy_index % n
              i == Min(FreeOffsets(proxies, start, failed_proxies'))
          IN /\ FreeOffsets(proxies, start, failed_proxies') # {}
             /\ last'.ret = proxies[((start + i) % n) + 1]
             /\ proxy_index' = (start + i + 1) % n]_vars

\* C30: whenever the pool is not empty, proxy_index is a position of the pool,
\* 0 <= proxy_index < len(pool), after the initial load and after every
\* request, reply and refresh.
C30_IndexInPool ==
  proxies # <<>> => (0 <= proxy_index /\ proxy_index < Len(proxies))

\* A sequential selection of the last entry of a pool of two or more has
\* wrapped the index around.
C30_Witness ==
  /\ mode = "sequential" /\ last.called
  /\ Len(proxies) >= 2
  /\ last.ret = proxies[Len(proxies)]
  /\ proxy_index = 0

\* C12: every entry of the pool, and every proxy assigned to a request, is a
\* URL with a scheme and a host.
C12_PoolEntriesHaveHost ==
  \A p \in Range(proxies) \cup assigned :
    urlparse(p).scheme # "" /\ urlparse(p).hostname # ""

(***************************************************************************)
(* The log analyzer: src/plugins/log_analyzer_plugin.py.                   *)
(*                                                                         *)
(* A stripped line of the log is a sequence of tokens.  The quote, the     *)
(* separator ": " and the comma are tokens of their own, so that           *)
(* str.split(': '), str.strip("'") and str.strip(',') act on the line as   *)
(* they do in the code; every other token stands for a run of characters   *)
(* that holds none of the three.                                           *)
(***************************************************************************)
Q == "'"
SEP == ": "
COMMA == ","
TS == "2024-05-01 10:00:00"
LOGGER == " [scrapy.core.engine] "
ERROR == "ERROR: "
WARNING == "WARNING: "
RC == "downloader/response_count"
SC == "downloader/response_status_count/"
ELAPSED == "elapsed_time_seconds"
SPACES == "    "

\* Numerals and the number json.loads decodes them to (line 321).
NumberOf == [t \in {"100", "80"} |-> IF t = "100" THEN 100 ELSE 80]

\* Status codes as they are spelled in a stat key.
CodeTokens == {"200", "404"}

ErrorLine == <<TS, LOGGER, ERROR, "Spider error processing">>
WarningLine == <<TS, LOGGER, WARNING, "Retrying request">>
RcLine == <<Q, RC, Q, SEP, "100", COMMA>>
Sc200Line == <<Q, SC, "200", Q, SEP, "80", COMMA>>
ElapsedBadLine == <<Q, ELAPSED, Q, SEP, "abc", COMMA>>
CloseLine == <<"}">>
\* An error whose message quotes the first stat of a dump.
ErrorStatLine == <<TS, LOGGER, ERROR, Q, RC, Q, SEP, "100">>

LogLines == {ErrorLine, WarningLine, RcLine, Sc200Line, ElapsedBadLine, CloseLine,
             ErrorStatLine}

\* A decoded stat value: a number, or the text kept when decoding fails.
Num(n) == [num |-> TRUE, n |-> n, s |-> <<>>]
Str(s) == [num |-> FALSE, n |-> 0, s |-> s]

\* REGEX_ERROR and REGEX_WARNING (lines 28-29): timestamp, logger in
\* brackets, the level, and group(1) the rest of the line.
regex_level_match(line, level) ==
  Len(line) >= 3 /\ line[1] = TS /\ line[2] = LOGGER /\ line[3] = level

level_group1(line) == SubSeq(line, 4, Len(line))

\* Lines 298-301: a traceback header is collapsed to one message.
error_msg(line) ==
  IF "Traceback (most recent call last)" \in Range(level_group1(line))
  THEN <<"Traceback occurred (see log for details)">>
  ELSE level_group1(line)

\* str.strip(chars) for a one-character set, and str.strip() of blanks.
RECURSIVE lstrip(_, _)
lstrip(s, tok) ==
  IF s # <<>> /\ Head(s) = tok THEN lstrip(Tail(s), tok) ELSE s

RECURSIVE rstrip(_, _)
rstrip(s, tok) ==
  IF s # <<>> /\ s[Len(s)] = tok THEN rstrip(SubSeq(s, 1, Len(s) - 1), tok) ELSE s

strip(s, tok) == rstrip(lstrip(s, tok), tok)

\* line.split(': ') (lines 315, 335): the pieces between the separators.
RECURSIVE split(_)
split(line) ==
  IF \E i \in 1..Len(line) : line[i] = SEP
  THEN LET i == CHOOSE j \in 1..Len(line) :
                  line[j] = SEP /\ \A k \in 1..(j - 1) : line[k] # SEP
       IN <<SubSeq(line, 1, i - 1)>> \o split(SubSeq(line, i + 1, Len(line)))
  ELSE <<line>>

\* Lines 317 and 337.
key_of(part) == strip(strip(part, SPACES), Q)

\* Lines 318 and 338.
value_str_of(part) == strip(strip(part, SPACES), COMMA)

\* Lines 319-323 and 339-340: json.loads, and the text without its quotes
\* when the text is not JSON.
json_value(value_str) ==
  IF Len(value_str) = 1 /\ value_str[1] \in DOMAIN NumberOf
  THEN Num(NumberOf[value_str[1]])
  ELSE Str(strip(value_str, Q))

\* REGEX_RESPONSE_STATUS (line 37), matched at the start of its subject:
\* quote, the status-count prefix, digits, quote, ": ", digits.
regex_response_status_match(subject) ==
  /\ Len(subject) >= 6
  /\ subject[1] = Q /\ subject[2] = SC /\ subject[3] \in CodeTokens
  /\ subject[4] = Q /\ subject[5] = SEP /\ subject[6] \in DOMAIN NumberOf

\* Line 332: "'downloader/response_count':" in line.
starts_stats_dump(line) ==
  \E i \in 1..Len(line) :
    /\ i + 3 <= Len(line)
    /\ line[i] = Q /\ line[i + 1] = RC /\ line[i + 2] = Q /\ line[i + 3] = SEP

\* d[key] = value.
put(d, key, value) ==
  [k \in DOMAIN d \cup {key} |-> IF k = key THEN value ELSE d[k]]

\* defaultdict(int): d[key] += n.
add(d, key, n) == put(d, key, (IF key \in DOMAIN d THEN d[key] ELSE 0) + n)

\* dict.get(key, default).
get(d, key, default) == IF key \in DOMAIN d THEN d[key] ELSE default

\* sum(d.values()).
RECURSIVE sum_values(_)
sum_values(d) ==
  IF DOMAIN d = {} THEN 0
  ELSE LET k == CHOOSE x \in DOMAIN d : TRUE
       IN d[k] + sum_values([x \in DOMAIN d \ {k} |-> d[x]])

\* int(value) (line 330): the number, or ValueError for text that is no numeral.
int_raises(value) ==
  ~value.num /\ ~(Len(value.s) = 1 /\ value.s[1] \in DOMAIN NumberOf)

int_of(value) == IF value.num THEN value.n ELSE NumberOf[value.s[1]]

\* code.startswith('2') (line 362).
startswith_2(code) == code = "200"

\* Lines 315-330 (with_status) and lines 335-341 (without): a line that
\* splits in two is stored in raw_stats, and inside the dump its key is
\* matched against REGEX_RESPONSE_STATUS.
store_stat(st, line, with_status) ==
  LET parts == split(line) IN
  IF Len(parts) # 2 THEN st
  ELSE LET key == key_of(parts[1])
           value == json_value(value_str_of(parts[2]))
           stored == [st EXCEPT !.raw_stats = put(st.raw_stats, key, value)]
       IN IF with_status /\ regex_response_status_match(key)
          THEN IF int_raises(value)
               THEN [stored EXCEPT !.raised = TRUE]
               ELSE [stored EXCEPT
                       !.status_codes = add(st.status_codes, key[3], int_of(value))]
          ELSE stored

\* Mutant: the closing brace of line 313 is not looked for.
stats_step_unclosed(st, line) ==
  LET parsed == IF st.in_stats_dump THEN store_stat(st, line, TRUE) ELSE st
  IN IF parsed.raised THEN parsed
     ELSE IF starts_stats_dump(line)
          THEN store_stat([parsed EXCEPT !.in_stats_dump = TRUE], line, FALSE)
          ELSE parsed

\* Lines 313-341 for a line that is neither an error nor a warning.
stats_step(st, line) ==
  LET closed == IF line = CloseLine
                THEN [st EXCEPT !.in_stats_dump = FALSE] ELSE st
      parsed == IF closed.in_stats_dump THEN store_stat(closed, line, TRUE)
                ELSE closed
  IN IF parsed.raised THEN parsed
     ELSE IF starts_stats_dump(line)
          THEN store_stat([parsed EXCEPT !.in_stats_dump = TRUE], line, FALSE)
          ELSE parsed

\* A quotient of two numbers, kept exact.
Ratio(a, b) == [num |-> a, den |-> b]

\* Lines 344-366.  Comparing or dividing a text value raises TypeError.
summary_raises(stats) ==
  LET elapsed == get(stats, <<ELAPSED>>, Num(0))
      requests == get(stats, <<"downloader/request_count">>, Num(0))
      items == get(stats, <<"item_scraped_count">>, Num(0))
      responses == get(stats, <<RC>>, Num(0))
  IN \/ ~elapsed.num
     \/ elapsed.n > 0 /\ (~requests.num \/ ~items.num)
     \/ ~responses.num

summary_of(errs, warns, stats, codes) ==
  LET elapsed == get(stats, <<ELAPSED>>, Num(0))
      requests == get(stats, <<"downloader/request_count">>, Num(0))
      items == get(stats, <<"item_scraped_count">>, Num(0))
      responses == get(stats, <<RC>>, Num(0))
      success_codes ==
        sum_values([c \in {x \in DOMAIN codes : startswith_2(x)} |-> codes[c]])
  IN [set |-> TRUE,
      error_count |-> sum_values(errs),
      warning_count |-> sum_values(warns),
      item_scraped_count |-> items,
      finish_reason |-> get(stats, <<"finish_reason">>, Str(<<"N/A">>)),
      elapsed_seconds |-> elapsed,
      total_requests |-> requests,
      total_responses |-> responses,
      avg_req_per_sec |-> IF elapsed.n > 0 THEN Ratio(requests.n, elapsed.n)
                          ELSE Ratio(0, 1),
      avg_item_per_sec |-> IF elapsed.n > 0 THEN Ratio(items.n, elapsed.n)
                           ELSE Ratio(0, 1),
      http_success_rate |-> IF responses.n > 0
                            THEN Ratio(success_codes * 100, responses.n)
                            ELSE Ratio(0, 1)]

\* Lines 277 and 278: the tables of a call start empty.
stale_errors == errors

fresh_errors == EmptyTable

fresh_warnings == EmptyTable

\* Lines 280-281.
fresh_raw_stats == EmptyTable

fresh_status_codes == EmptyTable

\* What a call hands to its caller: the results dict, or the exception of
\* lines 371-374.
Results ==
  IF log_pc = "raised" THEN [status |-> "raised"]
  ELSE [status |-> log_pc, errors |-> errors, warnings |-> warnings,
        raw_stats |-> raw_stats, status_codes |-> status_codes,
        summary |-> summary]

\* A call ends with the text it read and with what it hands back: the first
\* such call is kept, and so is whether a later call read another text.
ended(text, out) ==
  IF first.set THEN [first EXCEPT !.others = @ \/ text # first.log]
  ELSE [set |-> TRUE, log |-> text, out |-> out, others |-> FALSE]

\* Lines 276-286: a call begins.
StartAnalysis ==
  /\ log_pc \in {"idle", "returned", "raised"}
  /\ log_pc' = "reading"
  /\ log_read' = <<>>
  /\ in_stats_dump' = FALSE
  /\ errors' = fresh_errors
  /\ warnings' = fresh_warnings
  /\ raw_stats' = fresh_raw_stats
  /\ status_codes' = fresh_status_codes
  /\ summary' = NoSummary
  /\ UNCHANGED <<first, not_log_vars>>

\* Lines 290-341: one round of the loop over the file.
ReadLine(line) ==
  /\ log_pc = "reading"
  /\ Len(log_read) < MaxLines
  /\ log_read' = Append(log_read, line)
  /\ IF line = <<>>
     THEN UNCHANGED <<log_pc, in_stats_dump, errors, warnings, raw_stats,
                      status_codes, first>>
     ELSE IF regex_level_match(line, ERROR)
     THEN /\ errors' = add(errors, error_msg(line), 1)
          /\ UNCHANGED <<log_pc, in_stats_dump, warnings, raw_stats,
                         status_codes, first>>
     ELSE IF regex_level_match(line, WARNING)
     THEN /\ warnings' = add(warnings, level_group1(line), 1)
          /\ UNCHANGED <<log_pc, in_stats_dump, errors, raw_stats,
                         status_codes, first>>
     ELSE LET st == stats_step([in_stats_dump |-> in_stats_dump,
                                raw_stats |-> raw_stats,
                                status_codes |-> status_codes,
                                raised |-> FALSE], line)
          IN /\ in_stats_dump' = st.in_stats_dump
             /\ raw_stats' = st.raw_stats
             /\ status_codes' = st.status_codes
             /\ log_pc' = IF st.raised THEN "raised" ELSE "reading"
             /\ first' = IF st.raised
                         THEN ended(Append(log_read, line), [status |-> "raised"])
                         ELSE first
             /\ UNCHANGED <<errors, warnings>>
  /\ UNCHANGED <<summary, not_log_vars>>

\* Lines 343-376: the end of the file; the summary is computed and the
\* results are returned, or the exception is passed on.
FinishAnalysis ==
  /\ log_pc = "reading"
  /\ IF summary_raises(raw_stats)
     THEN log_pc' = "raised" /\ summary' = NoSummary
     ELSE /\ log_pc' = "returned"
          /\ summary' = summary_of(errors, warnings, raw_stats, status_codes)
  /\ LET out == IF summary_raises(raw_stats) THEN [status |-> "raised"]
                ELSE [status |-> "returned", errors |-> errors,
                      warnings |-> warnings, raw_stats |-> raw_stats,
                      status_codes |-> status_codes,
                      summary |-> summary_of(errors, warnings, raw_stats,
                                             status_codes)]
     IN first' = ended(log_read, out)
  /\ UNCHANGED <<log_read, in_stats_dump, errors, warnings, raw_stats,
                 status_codes, not_log_vars>>

InitLog == LogIdle /\ IdleButLog

ReadStep == \E line \in LogLines \cup {<<>>} : ReadLine(line)

NextLog == StartAnalysis \/ ReadStep \/ FinishAnalysis

SpecLog == InitLog /\ [][NextLog]_vars

(***************************************************************************)
(* Properties of the log analyzer.                                         *)
(***************************************************************************)

\* C6: a returned analysis whose dump held downloader/response_count = 100
\* and downloader/response_status_count/200 = 80 reports an http_success_rate
\* of 80, and every status count of the dump is in the status_codes table.
C6_SuccessRate ==
  (/\ log_pc = "returned"
   /\ get(raw_stats, <<RC>>, Num(0)) = Num(100)
   /\ get(raw_stats, <<SC, "200">>, Num(0)) = Num(80))
    => /\ summary.http_success_rate.num = 80 * summary.http_success_rate.den
       /\ get(status_codes, "200", 0) = 80

\* C7: a call that ends after reading the text that the first call read
\* hands back what the first call handed back, whatever was analysed in
\* between.
C7_Idempotent ==
  (log_pc \in {"returned", "raised"} /\ first.set /\ log_read = first.log)
    => Results = first.out

\* The first text was analysed, then another text, then the first text
\* again, and it fills the error table and the raw stats.
C7_Witness ==
  /\ log_pc = "returned" /\ first.set /\ first.others /\ log_read = first.log
  /\ DOMAIN errors # {} /\ DOMAIN raw_stats # {}

\* C18: a stat line of the dump whose value does not decode as a number or
\* JSON value never makes the analysis fail: a call that read such a line for
\* elapsed_time_seconds returns, with the value kept as a string and the
\* summary computed.
C18_MalformedStatsTolerated ==
  (/\ log_pc \in {"returned", "raised"}
   /\ get(raw_stats, <<ELAPSED>>, Num(0)) = Str(<<"abc">>))
    => log_pc = "returned" /\ summary.set

\* C23: reading a line that matches as ERROR or WARNING changes neither the
\* in_stats_dump flag nor raw_stats.  Any other line sets the flag when it
\* contains 'downloader/response_count':, clears it when it is a closing
\* brace, and else leaves it alone; and it changes raw_stats only when the
\* flag was set before it or the line is one that sets the flag.
C23_StatsDumpFlag ==
  [][(log_pc = "reading" /\ Len(log_read') = Len(log_read) + 1)
       => LET line == log_read'[Len(log_read')]
          IN IF regex_level_match(line, ERROR) \/ regex_level_match(line, WARNING)
             THEN in_stats_dump' = in_stats_dump /\ raw_stats' = raw_stats
             ELSE /\ in_stats_dump' = IF starts_stats_dump(line) THEN TRUE
                                       ELSE IF line = CloseLine THEN FALSE
                                       ELSE in_stats_dump
                  /\ raw_stats' # raw_stats
                       => (in_stats_dump \/ starts_stats_dump(line))]_vars

\* The first stat line of a dump set the flag and was stored, and the closing
\* brace after it cleared the flag.
C23_Witness ==
  /\ log_read = <<RcLine, CloseLine>>
  /\ ~in_stats_dump
  /\ <<RC>> \in DOMAIN raw_stats

(***************************************************************************)
(* The settings advisor: src/plugins/settings_advisor_plugin.py.           *)
(*                                                                         *)
(* settings.py is a sequence of one-line statements, statement i on line   *)
(* i: an assignment NAME = value, the same assignment inside a block       *)
(* ("if 1: NAME = value"), an import of an extension, or a line that does  *)
(* not parse ("x = = 1").                                                  *)
(***************************************************************************)
ProjectName == "myproject"

\* The value expression of an assignment, as ast.parse builds it.
NoNode == [ty |-> "none", b |-> FALSE, n |-> 0, s |-> <<>>]
BoolNode(b) == [ty |-> "bool", b |-> b, n |-> 0, s |-> <<>>]
NumNode(n) == [ty |-> "num", b |-> FALSE, n |-> n, s |-> <<>>]
StrNode(s) == [ty |-> "str", b |-> FALSE, n |-> 0, s |-> s]
CallNode == [ty |-> "call", b |-> FALSE, n |-> 0, s |-> <<>>]

\* The user agent of the project template, and one chosen by the user.
DefaultUA == StrNode(<<ProjectName, " (+http://www.yourdomain.com)">>)
CustomUA == StrNode(<<"MyBot (+http://mywebsite.com)">>)

Assign(name, node, nested) ==
  [kind |-> "assign", name |-> name, node |-> node, nested |-> nested]

Import(ext) == [kind |-> "import", name |-> ext, node |-> NoNode, nested |-> FALSE]

Broken == [kind |-> "broken", name |-> "x", node |-> NoNode, nested |-> FALSE]

\* Lines 384-389.
Extensions == {"scrapy_playwright", "scrapy_splash", "scrapy_redis"}

Statements ==
  {Assign("ROBOTSTXT_OBEY", node, nested) :
     node \in {BoolNode(FALSE), BoolNode(TRUE), CallNode}, nested \in BOOLEAN}
  \cup {Assign("USER_AGENT", node, FALSE) : node \in {DefaultUA, CustomUA, CallNode}}
  \cup {Assign("DOWNLOAD_DELAY", node, FALSE) : node \in {NumNode(0), NumNode(2), CallNode}}
  \cup {Assign("CONCURRENT_REQUESTS_PER_DOMAIN", node, FALSE) : node \in {NumNode(4), CallNode}}
  \cup {Assign("CONCURRENT_REQUESTS_PER_IP", node, FALSE) : node \in {NumNode(10), CallNode}}
  \cup {Assign("AUTOTHROTTLE_ENABLED", node, FALSE) : node \in {BoolNode(TRUE), CallNode}}
  \cup {Assign("HTTPCACHE_ENABLED", node, FALSE) : node \in {BoolNode(TRUE), CallNode}}
  \cup {Import(ext) : ext \in Extensions}
  \cup {Broken}

\* ast.parse (line 267) raises SyntaxError for a text with a broken line;
\* e.lineno is the first such line.
parses(text) == \A i \in 1..Len(text) : text[i].kind # "broken"

syntax_error_lineno(text) ==
  CHOOSE i \in 1..Len(text) :
    text[i].kind = "broken" /\ \A j \in 1..(i - 1) : text[j].kind # "broken"

\* ast.walk (line 291) is breadth first: the assignments at the top level
\* come in line order before every assignment inside a block.
ast_walk(text) ==
  LET lines == [i \in 1..Len(text) |-> i]
      top(i) == text[i].kind = "assign" /\ ~text[i].nested
      inner(i) == text[i].kind = "assign" /\ text[i].nested
  IN SelectSeq(lines, top) \o SelectSeq(lines, inner)

\* Lines 291-297: every assignment visited overwrites the entry of its name.
RECURSIVE collect(_, _, _)
collect(found, text, walk) ==
  IF walk = <<>> THEN found
  ELSE collect(put(found, text[Head(walk)].name,
                   [value_node |-> text[Head(walk)].node, line |-> Head(walk)]),
               text, Tail(walk))

\* Lines 289-297; without a tree the table stays empty.
settings_found_of(text) ==
  IF parses(text) THEN collect(EmptyTable, text, ast_walk(text)) ELSE EmptyTable

\* settings_found.get(name): the entry, or one with line 0 for None.
NoSetting == [value_node |-> NoNode, line |-> 0]

\* _get_node_value (lines 395-406): ast.literal_eval, or None.
get_node_value(node) == IF node.ty \in {"bool", "num", "str"} THEN node ELSE NoNode

\* The number a bool or a number counts as in a comparison.
number_of(value) == IF value.ty = "bool" THEN (IF value.b THEN 1 ELSE 0) ELSE value.n

\* value < x and value > x raise TypeError for None and for a string.
comparable(value) == value.ty \in {"bool", "num"}

\* Line 315: re.search(r"^\s*ROBOTSTXT_OBEY\s*=", content, re.MULTILINE).
robots_line_in(text) ==
  \E i \in 1..Len(text) :
    text[i].kind = "assign" /\ text[i].name = "ROBOTSTXT_OBEY" /\ ~text[i].nested

\* Lines 321 and 334: a USER_AGENT line whose string starts with the
\* project name.
default_ua_line_in(text) ==
  \E i \in 1..Len(text) :
    /\ text[i].kind = "assign" /\ text[i].name = "USER_AGENT" /\ ~text[i].nested
    /\ text[i].node.ty = "str" /\ Head(text[i].node.s) = ProjectName

\* Lines 322 and 334: an active USER_AGENT line.
custom_ua_line_in(text) ==
  \E i \in 1..Len(text) :
    text[i].kind = "assign" /\ text[i].name = "USER_AGENT" /\ ~text[i].nested

\* Lines 384, 386 and 388: 'scrapy_...' in content.
mentions(text, ext) ==
  \E i \in 1..Len(text) : text[i].kind = "import" /\ text[i].name = ext

\* An entry of a result list: its message and its line (0 for None or no line).
Entry(message, line) == [message |-> message, line |-> line]

\* Line 259, and lines 268-271 or 273-277: the lists after the parse.
parse_results(text) ==
  IF parses(text)
  THEN [warnings |-> <<>>, recommendations |-> <<>>,
        info |-> <<Entry("Syntax check passed.", 0)>>]
  ELSE [warnings |-> <<Entry("Syntax error", syntax_error_lineno(text))>>,
        recommendations |-> <<>>, info |-> <<>>]

\* Lines 302-316.
robots_check(r, found, text) ==
  LET robot_setting == get(found, "ROBOTSTXT_OBEY", NoSetting)
      value == get_node_value(robot_setting.value_node)
  IN IF "ROBOTSTXT_OBEY" \in DOMAIN found
     THEN IF value.ty = "bool" /\ value.b = FALSE
          THEN [r EXCEPT !.warnings =
                  Append(@, Entry("ROBOTSTXT_OBEY is set to False.",
                                  robot_setting.line))]
          ELSE [r EXCEPT !.info =
                  Append(@, Entry("ROBOTSTXT_OBEY is explicitly set (likely True).",
                                  robot_setting.line))]
     ELSE IF ~robots_line_in(text)
          THEN [r EXCEPT !.info =
                  Append(@, Entry("ROBOTSTXT_OBEY is not explicitly set (defaults to True).", 0))]
          ELSE r

\* Lines 318-339.
user_agent_check(r, found, text) ==
  LET ua_setting == get(found, "USER_AGENT", NoSetting)
      value == get_node_value(ua_setting.value_node)
  IN IF "USER_AGENT" \in DOMAIN found
     THEN IF value.ty = "str" /\ ProjectName \in Range(value.s)
          THEN [r EXCEPT !.recommendations =
                  Append(@, Entry("Default USER_AGENT is likely used.",
                                  ua_setting.line))]
          ELSE [r EXCEPT !.info =
                  Append(@, Entry("Custom USER_AGENT seems to be set.",
                                  ua_setting.line))]
     ELSE IF default_ua_line_in(text) \/ ~custom_ua_line_in(text)
          THEN [r EXCEPT !.recommendations =
                  Append(@, Entry("USER_AGENT is likely commented out or missing.", 0))]
          ELSE r

\* Line 348.
autothrottle_enabled_in(found) ==
  /\ "AUTOTHROTTLE_ENABLED" \in DOMAIN found
  /\ get_node_value(found["AUTOTHROTTLE_ENABLED"].value_node) = BoolNode(TRUE)

\* Lines 350-352: the value of a setting, or the default of Scrapy.
value_or(found, name, default) ==
  IF name \in DOMAIN found THEN get_node_value(found[name].value_node)
  ELSE NumNode(default)

\* Lines 355 and 361: the comparisons raise TypeError for a value that is
\* None or a string; or stops at its first true operand.
throttle_raises(found) ==
  LET delay_value == value_or(found, "DOWNLOAD_DELAY", 0)
      conc_domain_value == value_or(found, "CONCURRENT_REQUESTS_PER_DOMAIN", 16)
      conc_ip_value == value_or(found, "CONCURRENT_REQUESTS_PER_IP", 16)
  IN /\ ~autothrottle_enabled_in(found)
     /\ \/ delay_value.ty = "str"
        \/ ~comparable(conc_domain_value)
        \/ number_of(conc_domain_value) <= 8 /\ ~comparable(conc_ip_value)

\* Lines 341-368, when no comparison raises.
throttle_check(r, found) ==
  LET delay_setting == get(found, "DOWNLOAD_DELAY", NoSetting)
      conc_domain_setting == get(found, "CONCURRENT_REQUESTS_PER_DOMAIN", NoSetting)
      conc_ip_setting == get(found, "CONCURRENT_REQUESTS_PER_IP", NoSetting)
      delay_value == value_or(found, "DOWNLOAD_DELAY", 0)
      conc_domain_value == value_or(found, "CONCURRENT_REQUESTS_PER_DOMAIN", 16)
      conc_ip_value == value_or(found, "CONCURRENT_REQUESTS_PER_IP", 16)
      low_delay == delay_value.ty = "none" \/ 2 * number_of(delay_value) < 1
      high_conc == number_of(conc_domain_value) > 8 \/ number_of(conc_ip_value) > 8
      conc_line == IF "CONCURRENT_REQUESTS_PER_DOMAIN" \in DOMAIN found
                   THEN conc_domain_setting.line ELSE conc_ip_setting.line
      delayed == IF low_delay
                 THEN [r EXCEPT !.recommendations =
                         Append(@, Entry("Low/No DOWNLOAD_DELAY without AutoThrottle.",
                                         delay_setting.line))]
                 ELSE r
  IN IF autothrottle_enabled_in(found)
     THEN [r EXCEPT !.info =
             Append(@, Entry("AUTOTHROTTLE_ENABLED is True.",
                             found["AUTOTHROTTLE_ENABLED"].line))]
     ELSE IF high_conc
          THEN [delayed EXCEPT !.recommendations =
                  Append(@, Entry("High concurrency without AutoThrottle.", conc_line))]
          ELSE delayed

\* Lines 370-380.
cache_check(r, found) ==
  LET cache_setting == get(found, "HTTPCACHE_ENABLED", NoSetting)
  IN IF \/ "HTTPCACHE_ENABLED" \notin DOMAIN found
        \/ get_node_value(cache_setting.value_node) = BoolNode(FALSE)
     THEN [r EXCEPT !.recommendations =
             Append(@, Entry("HTTP Caching is disabled.", cache_setting.line))]
     ELSE [r EXCEPT !.info =
             Append(@, Entry("HTTPCACHE_ENABLED is True.", cache_setting.line))]

\* The extension checks left out.
no_extension_checks(text) == <<>>

\* Lines 382-389: the entries the substring checks add to info.
extension_checks(text) ==
  (IF mentions(text, "scrapy_playwright")
   THEN <<Entry("Playwright integration detected.", 0)>> ELSE <<>>)
  \o (IF mentions(text, "scrapy_splash")
      THEN <<Entry("Splash integration detected.", 0)>> ELSE <<>>)
  \o (IF mentions(text, "scrapy_redis")
      THEN <<Entry("Scrapy-Redis integration detected.", 0)>> ELSE <<>>)

\* The checks of lines 299-391 on a table of settings.
perform_checks(text, found) ==
  LET r1 == robots_check(parse_results(text), found, text)
      r2 == user_agent_check(r1, found, text)
      r3 == throttle_check(r2, found)
      r4 == cache_check(r3, found)
  IN IF throttle_raises(found)
     THEN [status |-> "raised", warnings |-> <<>>, recommendations |-> <<>>,
           info |-> <<>>]
     ELSE [status |-> "returned", warnings |-> r4.warnings,
           recommendations |-> r4.recommendations,
           info |-> r4.info \o extension_checks(text)]

\* _analyze_settings (lines 256-393) for a file that can be read.
analyze_settings(text) == perform_checks(text, settings_found_of(text))

\* The project's settings.py is edited: a line is added at its end, and the
\* dialog of the last analysis is gone.
WriteStatement(stmt) ==
  /\ Len(content) < MaxStmts
  /\ content' = Append(content, stmt)
  /\ results' = NoResults
  /\ UNCHANGED not_settings_vars

\* _show_advisor_dialog (lines 199-224) runs the analysis of the file.
AnalyzeSettings ==
  /\ results' = analyze_settings(content)
  /\ UNCHANGED <<content, not_settings_vars>>

InitSettings == SettingsIdle /\ IdleButSettings

WriteStep == \E stmt \in Statements : WriteStatement(stmt)

NextSettings == WriteStep \/ AnalyzeSettings

SpecSettings == InitSettings /\ [][NextSettings]_vars

(***************************************************************************)
(* Properties of the settings advisor.                                     *)
(***************************************************************************)

\* C8: for a settings source that parses and holds the assignment
\* ROBOTSTXT_OBEY = False, the analysis returns exactly one warning, and the
\* line of that warning is the line of such an assignment.
C8_RobotsWarning ==
  (/\ results.status # "none"
   /\ parses(content)
   /\ \E i \in 1..Len(content) :
        content[i].kind = "assign" /\ content[i].name = "ROBOTSTXT_OBEY"
        /\ content[i].node = BoolNode(FALSE))
    => /\ results.status = "returned"
       /\ Len(results.warnings) = 1
       /\ \E i \in 1..Len(content) :
            /\ content[i].kind = "assign" /\ content[i].name = "ROBOTSTXT_OBEY"
            /\ content[i].node = BoolNode(FALSE)
            /\ results.warnings[1].line = i

\* The settings the rules read (lines 313-380).
CheckedSettings ==
  {"ROBOTSTXT_OBEY", "USER_AGENT", "DOWNLOAD_DELAY", "CONCURRENT_REQUESTS_PER_DOMAIN",
   "CONCURRENT_REQUESTS_PER_IP", "AUTOTHROTTLE_ENABLED", "HTTPCACHE_ENABLED"}

\* C17: for a settings source that parses and assigns a non-literal
\* expression to a checked setting, the value degrades to unknown and the
\* analysis raises nothing: it returns its results.
C17_NonLiteralDegrades ==
  (/\ results.status # "none"
   /\ parses(content)
   /\ \E i \in 1..Len(content) :
        /\ content[i].kind = "assign"
        /\ content[i].name \in CheckedSettings
        /\ content[i].node = CallNode)
    => results.status = "returned"

\* The info message of each extension (lines 385, 387 and 389).
ExtensionMessage ==
  [ext \in Extensions |->
     IF ext = "scrapy_playwright" THEN "Playwright integration detected."
     ELSE IF ext = "scrapy_splash" THEN "Splash integration detected."
     ELSE "Scrapy-Redis integration detected."]

\* The assignments at the top level of the module, in line order.
top_level_assignments(text) ==
  SelectSeq([i \in 1..Len(text) |-> i],
            LAMBDA i : text[i].kind = "assign" /\ ~text[i].nested)

\* C27: the settings table is built from the top-level assignments only: an
\* assignment to a checked setting nested inside a block changes neither the
\* value and line recorded for the setting nor the results of the analysis.
C27_TopLevelOnly ==
  (results.status # "none" /\ parses(content))
    => /\ settings_found_of(content)
            = collect(EmptyTable, content, top_level_assignments(content))
       /\ results
            = perform_checks(content,
                             collect(EmptyTable, content,
                                     top_level_assignments(content)))

\* C9: for a settings source with a syntax error the analysis returns, its
\* only warning reports the parse error at its line, and info holds the
\* entry of each extension that the text mentions, and of no other.
C9_SyntaxErrorDegrades ==
  (results.status # "none" /\ ~parses(content))
    => /\ results.status = "returned"
       /\ results.warnings = <<Entry("Syntax error", syntax_error_lineno(content))>>
       /\ \A ext \in Extensions :
            mentions(content, ext)
              <=> \E i \in 1..Len(results.info) :
                    results.info[i].message = ExtensionMessage[ext]

\* A text with a broken line and an import of an extension was analysed.
C9_Witness ==
  /\ results.status = "returned" /\ ~parses(content)
  /\ \E ext \in Extensions : mentions(content, ext)

(***************************************************************************)
(* The file API: list_or_get_file of src/plugins/file_api_plugin.py.       *)
(*                                                                         *)
(* A path is the sequence of its names below the root, a name a sequence   *)
(* of pieces of text, so that str(path) and str.startswith compare         *)
(* characters and not names: "myproj_old" starts with "myproj".            *)
(***************************************************************************)
Srv == <<"srv">>
Myproj == <<"myproj">>
MyprojOld == <<"myproj", "_old">>
Spiders == <<"spiders">>
SettingsPy == <<"settings", ".py">>
SecretPy == <<"secret", ".py">>
ScrapyCfg == <<"scrapy", ".cfg">>
DotDot == <<"..">>
Dot == <<".">>

\* project_data['path'] of the one project the controller knows (line 68).
OuterProjectPath == <<Srv, Myproj>>

ProjectNames == {"myproj", "ghost"}

Layouts == {"nested", "flat", "broken"}

\* The directories and the files on disk.  "nested": the module directory
\* inside the project directory, next to a directory myproj_old; "flat":
\* settings.py in the project directory itself, myproj_old next to it;
\* "broken": neither.
Dirs(lay) ==
  {<<>>, <<Srv>>, OuterProjectPath}
    \cup (IF lay = "nested"
          THEN {OuterProjectPath \o <<Myproj>>,
                OuterProjectPath \o <<Myproj, Spiders>>,
                OuterProjectPath \o <<MyprojOld>>}
          ELSE IF lay = "flat"
          THEN {OuterProjectPath \o <<Spiders>>, <<Srv, MyprojOld>>}
          ELSE {})

Files(lay) ==
  {OuterProjectPath \o <<ScrapyCfg>>}
    \cup (IF lay = "nested"
          THEN {OuterProjectPath \o <<Myproj, SettingsPy>>,
                OuterProjectPath \o <<MyprojOld, SecretPy>>}
          ELSE IF lay = "flat"
          THEN {OuterProjectPath \o <<SettingsPy>>, <<Srv, MyprojOld, SecretPy>>}
          ELSE {})

\* The names a requested sub-path is made of.
Parts == {DotDot, Dot, Myproj, MyprojOld, Spiders, SettingsPy, SecretPy}

\* str(path): the names joined with "/".
RECURSIVE str_path(_)
str_path(path) ==
  IF path = <<>> THEN <<>> ELSE <<"/">> \o Head(path) \o str_path(Tail(path))

\* str.startswith.
startswith(s, prefix) ==
  Len(prefix) <= Len(s) /\ SubSeq(s, 1, Len(prefix)) = prefix

\* Path.relative_to(base) raises ValueError unless base is the path or one
\* of its parents.
is_relative_to(path, base) ==
  Len(base) <= Len(path) /\ SubSeq(path, 1, Len(base)) = base

\* Line 96: the parts that are not '.'.
path_parts(sub_path) == SelectSeq(sub_path, LAMBDA part : part # Dot)

\* Line 97: joinpath(*path_parts).resolve() on a disk without symlinks.
RECURSIVE resolve(_, _)
resolve(path, parts) ==
  IF parts = <<>> THEN path
  ELSE IF Head(parts) = DotDot
       THEN resolve(IF path = <<>> THEN path ELSE SubSeq(path, 1, Len(path) - 1),
                    Tail(parts))
       ELSE resolve(Append(path, Head(parts)), Tail(parts))

\* Lines 68-87: the module directory, the project directory as a fallback,
\* or nothing (answered with 500).
NoBase == <<<<"no base">>>>

base_project_path(lay, project_name) ==
  IF OuterProjectPath \o <<<<project_name>>>> \in Dirs(lay)
  THEN OuterProjectPath \o <<<<project_name>>>>
  ELSE IF OuterProjectPath \o <<SettingsPy>> \in Files(lay)
       THEN OuterProjectPath
       ELSE NoBase

\* Line 97.
full_path_of(lay, request) ==
  resolve(base_project_path(lay, request.project), path_parts(request.sub_path))

\* Line 103: the test that lets a request through.
inside_base(full_path, base) == startswith(str_path(full_path), str_path(base))

Answer(status, body, target) == [status |-> status, body |-> body, target |-> target]

\* list_or_get_file (lines 61-150).
list_or_get_file(lay, request) ==
  LET base == base_project_path(lay, request.project)
      full_path == full_path_of(lay, request)
      items == {p \in Dirs(lay) \cup Files(lay) :
                  Len(p) = Len(full_path) + 1
                  /\ SubSeq(p, 1, Len(full_path)) = full_path}
  IN IF request.project # "myproj" THEN Answer(404, "none", <<>>)
     ELSE IF base = NoBase THEN Answer(500, "none", <<>>)
     ELSE IF ~inside_base(full_path, base) THEN Answer(403, "none", full_path)
     ELSE IF full_path \notin Dirs(lay) \cup Files(lay)
          THEN Answer(404, "none", full_path)
     ELSE IF full_path \in Dirs(lay)
          THEN IF \A item \in items : is_relative_to(item, base)
               THEN Answer(200, "listing", full_path)
               ELSE Answer(500, "none", full_path)   \* ValueError, line 118
          ELSE Answer(200, "content", full_path)

\* A GET request for /api/projects/<project_name>/files/<sub_path>.
ListOrGetFile(request) ==
  /\ api_request = NoRequest
  /\ api_request' = request
  /\ api_response' = list_or_get_file(layout, request)
  /\ UNCHANGED <<layout, not_file_vars>>

Requests ==
  {[project |-> n, sub_path |-> s] : n \in ProjectNames, s \in SeqsUpTo(Parts, MaxParts)}

InitFiles ==
  /\ layout \in Layouts
  /\ api_request = NoRequest
  /\ api_response = NoResponse
  /\ IdleButFiles

\* The answer has been sent; the server waits for the next request.
ResponseSent ==
  /\ api_request # NoRequest
  /\ api_request' = NoRequest
  /\ api_response' = NoResponse
  /\ UNCHANGED <<layout, not_file_vars>>

GetStep == \E request \in Requests : ListOrGetFile(request)

NextFiles == GetStep \/ ResponseSent

SpecFiles == InitFiles /\ [][NextFiles]_vars

(***************************************************************************)
(* Properties of the file API.                                             *)
(***************************************************************************)

\* C13: a listing or a file content is returned only for a target inside the
\* base directory of the project, and a sub-path that resolves outside it is
\* answered with 403 and no content.
C13_PathContainment ==
  LET base == base_project_path(layout, api_request.project)
      full_path == full_path_of(layout, api_request)
  IN (api_response.status # 0 /\ api_request.project = "myproj" /\ base # NoBase)
       => /\ api_response.body # "none" => is_relative_to(api_response.target, base)
          /\ ~is_relative_to(full_path, base)
               => api_response.status = 403 /\ api_response.body = "none"

(***************************************************************************)
(* AlertManager (src/plugins/alert_notification_plugin.py): the alert      *)
(* history.  A record is the alert_info dict of one call; its n is the     *)
(* rank of its creation, which is the order of the timestamps.             *)
(***************************************************************************)
SpiderNames == {"quotes", "books"}

\* The configurations a settings file can hold: the history maximum is a
\* number of records, the blacklist a list of patterns.
AlertConfigs ==
  [enabled : BOOLEAN, alert_history_max : 0..MaxHistory,
   blacklisted : SUBSET {"books"}]

alert_info(n, spider_name) == [n |-> n, spider_name |-> spider_name]

\* list.insert(0, x) (line 464)
insert_first(history, x) == <<x>> \o history

\* history[:max] (line 468)
slice_to(history, max) == SubSeq(history, 1, Min({max, Len(history)}))

trim_one_late(history, max) ==
  IF Len(history) > max + 1 THEN slice_to(history, max + 1) ELSE history

\* lines 467-468
trim(history, max) ==
  IF Len(history) > max THEN slice_to(history, max) ELSE history

\* trigger_alert (lines 428-475): nothing happens when alerts are disabled or
\* the spider matches a blacklist pattern; otherwise the record goes to the
\* front of the history, which is then trimmed.
trigger_alert(spider_name) ==
  /\ alert_count < MaxAlerts
  /\ IF ~alert_config.enabled \/ spider_name \in alert_config.blacklisted
     THEN /\ alert_last' = [op |-> "trigger", before |-> alert_history, made |-> NoAlert]
          /\ UNCHANGED <<alert_history, alert_count>>
     ELSE LET n == alert_count + 1
              inserted == insert_first(alert_history, alert_info(n, spider_name))
          IN /\ alert_history' = trim(inserted, alert_config.alert_history_max)
             /\ alert_count' = n
             /\ alert_last' = [op |-> "trigger", before |-> alert_history,
                               made |-> alert_info(n, spider_name)]
  /\ UNCHANGED alert_config

\* AlertHistoryWidget._clear_history (lines 1273-1290), confirmed by the user.
clear_history ==
  /\ alert_history # <<>>
  /\ alert_history' = <<>>
  /\ alert_last' = [op |-> "clear", before |-> alert_history, made |-> NoAlert]
  /\ UNCHANGED <<alert_config, alert_count>>

\* _init_alert_manager (lines 1475-1485), at start-up and after the settings
\* are saved: a new manager with the new configuration and no history.
init_alert_manager(new_config) ==
  /\ alert_config' = new_config
  /\ alert_history' = <<>>
  /\ alert_last' = [op |-> "init", before |-> alert_history, made |-> NoAlert]
  /\ UNCHANGED alert_count

InitAlerts ==
  /\ alert_config \in AlertConfigs
  /\ alert_history = <<>>
  /\ alert_count = 0
  /\ alert_last = NoAlertCall
  /\ IdleButAlerts

TriggerStep == \E spider_name \in SpiderNames : trigger_alert(spider_name) /\ UNCHANGED not_alert_vars
ClearStep == clear_history /\ UNCHANGED not_alert_vars
ReinitStep == \E new_config \in AlertConfigs : init_alert_manager(new_config) /\ UNCHANGED not_alert_vars

NextAlerts == TriggerStep \/ ClearStep \/ ReinitStep

SpecAlerts == InitAlerts /\ [][NextAlerts]_vars

\* C14: after every trigger_alert call the history holds at most
\* alert_history_max records, the newest first, and what the call took out of
\* the history are its oldest records only: the history is the front part of
\* the new record followed by the history the call found.
C14_HistoryCapped ==
  alert_last.op = "trigger" =>
    LET fed == IF alert_last.made = NoAlert THEN alert_last.before
               ELSE <<alert_last.made>> \o alert_last.before
    IN /\ Len(alert_history) <= alert_config.alert_history_max
       /\ \A i, j \in 1..Len(alert_history) : i < j => alert_history[i].n > alert_history[j].n
       /\ Len(alert_history) <= Len(fed)
       /\ alert_history = SubSeq(fed, 1, Len(alert_history))
       /\ (alert_last.made # NoAlert /\ alert_config.alert_history_max > 0)
            => alert_history # <<>> /\ alert_history[1] = alert_last.made

\* A call that found a full history, put its record first and dropped the oldest.
C14_Witness ==
  /\ alert_last.op = "trigger"
  /\ alert_last.made # NoAlert
  /\ Len(alert_last.before) = alert_config.alert_history_max
  /\ Len(alert_history) = 2
  /\ alert_history[1] = alert_last.made

(***************************************************************************)
(* SpiderAnalyticsPlugin (src/plugins/spider_analytics_dashboard.py): the  *)
(* run records kept by the start and finish hooks.  A record carries the   *)
(* keys the hooks write: run_id, status, start_time (known or None) and    *)
(* item_count (None until a finish hook writes it).                        *)
(***************************************************************************)
RunIds == {"r1", "r2"}

\* The spider_info dicts the hooks receive; run_id is None when the key is
\* missing.
SpiderInfos == [run_id : RunIds \cup {None}, spider_name : SpiderNames]

\* What a run can end with: status and item_count.
FinishResults == {<<"completed", 3>>, <<"failed", 0>>}

\* The position of the first record of the run (lines 494-497, 566-574); 0
\* when there is none.
RECURSIVE run_index(_, _, _)
run_index(runs, run_id, i) ==
  IF i > Len(runs) THEN 0
  ELSE IF runs[i].run_id = run_id THEN i
  ELSE run_index(runs, run_id, i + 1)

\* lines 500-511
start_info(run_id) ==
  [run_id |-> run_id, status |-> "running", start_time |-> "known"]

\* lines 546-556: the placeholder has no status yet and an unknown start.
placeholder_start(run_id) ==
  [run_id |-> run_id, status |-> None, start_time |-> None, item_count |-> None]

\* dict.update: the keys of info replace those of the record, the others stay.
update(record, info) ==
  [k \in DOMAIN record \cup DOMAIN info |-> IF k \in DOMAIN info THEN info[k] ELSE record[k]]

\* save_analytics_data (lines 616-628): the file is rewritten from the data;
\* an error is logged and leaves the file behind the data.
save_analytics_data(written) == IF written THEN "current" ELSE "stale"

\* on_spider_started (lines 479-524)
on_spider_started(spider_info, written) ==
  LET run_id == spider_info.run_id
      spider_name == spider_info.spider_name
      data == IF spider_name \in DOMAIN analytics_data THEN analytics_data
              ELSE put(analytics_data, spider_name, <<>>)
      runs == data[spider_name]
      existing == run_index(runs, run_id, 1)
  IN /\ hook_last' = [op |-> "start", spider_name |-> spider_name,
                      run_id |-> run_id, before |-> analytics_data]
     /\ IF run_id = None
        THEN UNCHANGED <<analytics_data, analytics_file>>
        ELSE /\ analytics_data' =
                  IF existing # 0
                  THEN put(data, spider_name,
                           [runs EXCEPT ![existing] = update(runs[existing], start_info(run_id))])
                  ELSE put(data, spider_name,
                           Append(runs, update([item_count |-> None], start_info(run_id))))
             /\ analytics_file' = save_analytics_data(written)

\* on_spider_finished (lines 526-614)
on_spider_finished(spider_info, status, item_count, written) ==
  LET run_id == spider_info.run_id
      spider_name == spider_info.spider_name
      data == IF spider_name \in DOMAIN analytics_data THEN analytics_data
              ELSE put(analytics_data, spider_name, <<placeholder_start(run_id)>>)
      runs == data[spider_name]
      found == run_index(runs, run_id, 1)
      \* lines 575-578: without a record of the run, the last one is taken
      target_run_index == IF found # 0 THEN found ELSE Len(runs)
      completion_info == [status |-> status, item_count |-> item_count]
  IN /\ hook_last' = [op |-> "finish", spider_name |-> spider_name,
                      run_id |-> run_id, before |-> analytics_data]
     /\ IF run_id = None
        THEN UNCHANGED <<analytics_data, analytics_file>>
        ELSE /\ analytics_data' =
                  IF target_run_index # 0
                  THEN put(data, spider_name,
                           [runs EXCEPT ![target_run_index] =
                              update(runs[target_run_index], completion_info)])
                  ELSE data
             /\ analytics_file' = save_analytics_data(written)

InitAnalytics == AnalyticsIdle /\ IdleButAnalytics

StartedStep ==
  /\ hook_calls < MaxCalls
  /\ hook_calls' = hook_calls + 1
  /\ \E spider_info \in SpiderInfos, written \in BOOLEAN :
       on_spider_started(spider_info, written)
  /\ UNCHANGED not_analytics_vars

FinishedStep ==
  /\ hook_calls < MaxCalls
  /\ hook_calls' = hook_calls + 1
  /\ \E spider_info \in SpiderInfos, result \in FinishResults, written \in BOOLEAN :
       on_spider_finished(spider_info, result[1], result[2], written)
  /\ UNCHANGED not_analytics_vars

NextAnalytics == StartedStep \/ FinishedStep

SpecAnalytics == InitAnalytics /\ [][NextAnalytics]_vars


\* C15: a run record is identified by its run_id.  After any sequence of
\* start and finish hook calls, no run list holds two records with the same
\* run_id; a hook call removes no record and changes no record but the one of
\* its own spider and run_id; the start hook leaves a running record of its
\* run, and the finish hook of a run that has a record adds none and leaves
\* that record finished.
C15_RunRecords ==
  LET before == hook_last.before
      spider == hook_last.spider_name
      run_id == hook_last.run_id
  IN /\ \A name \in DOMAIN analytics_data :
          \A i, j \in 1..Len(analytics_data[name]) :
            i # j => analytics_data[name][i].run_id # analytics_data[name][j].run_id
     /\ \A name \in DOMAIN before :
          /\ name \in DOMAIN analytics_data
          /\ Len(analytics_data[name]) >= Len(before[name])
          /\ \A i \in 1..Len(before[name]) :
               /\ analytics_data[name][i].run_id = before[name][i].run_id
               /\ (name # spider \/ before[name][i].run_id # run_id)
                    => analytics_data[name][i] = before[name][i]
     /\ (hook_last.op = "start" /\ run_id # None)
          => \E i \in 1..Len(analytics_data[spider]) :
               /\ analytics_data[spider][i].run_id = run_id
               /\ analytics_data[spider][i].status = "running"
     /\ (hook_last.op = "finish" /\ spider \in DOMAIN before)
          => LET was == run_index(before[spider], run_id, 1)
             IN was # 0 =>
                  /\ Len(analytics_data[spider]) = Len(before[spider])
                  /\ analytics_data[spider][was].status \in {"completed", "failed"}

\* C24: the finish hook for run_id r of spider s leaves a finished record of
\* r in the list of s, and every record of another run_id, of s or of another
\* spider, is after the call what it was before it, for every order of start
\* and finish hooks.
C24_FinishUpdatesOwnRecord ==
  (hook_last.op = "finish" /\ hook_last.run_id # None)
    => LET before == hook_last.before
           s == hook_last.spider_name
           r == hook_last.run_id
       IN /\ s \in DOMAIN analytics_data
          /\ \E i \in 1..Len(analytics_data[s]) :
               /\ analytics_data[s][i].run_id = r
               /\ analytics_data[s][i].status \in {"completed", "failed"}
          /\ \A name \in DOMAIN before :
               \A i \in 1..Len(before[name]) :
                 (name # s \/ before[name][i].run_id # r)
                   => /\ name \in DOMAIN analytics_data
                      /\ i <= Len(analytics_data[name])
                      /\ analytics_data[name][i] = before[name][i]

(***************************************************************************)
(* Threads calling _refresh_proxies_if_needed (lines 136-148) of one       *)
(* middleware whose source is a URL.  A step is what a thread does between *)
(* two points where another thread can run: the unlocked test, the         *)
(* acquire, the test under the lock, the fetch, the release.               *)
(***************************************************************************)
Threads == 1..MaxThreads

\* lines 137-140: the guard, now = time.time(), and the test without the lock.
EnterRefresh(t) ==
  /\ th_pc[t] = "idle"
  /\ th_now' = [th_now EXCEPT ![t] = now]
  /\ th_pc' = [th_pc EXCEPT ![t] =
       IF refresh_due THEN "acquire" ELSE "idle"]
  /\ th_refused' = th_refused \ {t}
  /\ UNCHANGED <<refresh_lock, reloads, proxies, proxy_index, last_refresh_time, now>>

\* line 141: acquire(blocking=False); line 148 when the lock is taken.
AcquireLock(t) ==
  /\ th_pc[t] = "acquire"
  /\ IF refresh_lock = {}
     THEN /\ refresh_lock' = {t}
          /\ th_pc' = [th_pc EXCEPT ![t] = "locked"]
          /\ UNCHANGED th_refused
     ELSE /\ th_pc' = [th_pc EXCEPT ![t] = "idle"]
          /\ th_refused' = th_refused \cup {t}
          /\ UNCHANGED refresh_lock
  /\ UNCHANGED <<th_now, reloads, proxies, proxy_index, last_refresh_time, now>>

\* One more fetch among the last MaxReloads.
started(fetches) ==
  Append(IF Len(fetches) < MaxReloads THEN fetches ELSE Tail(fetches), "in flight")

\* The fetch in flight has ended: a fetch that reached line 113 opens a new
\* interval.
ended_with(fetches, kind) ==
  IF kind = "ok" THEN <<>> ELSE [fetches EXCEPT ![Len(fetches)] = kind]

always_due(t) == TRUE

\* line 143: the test under the lock, with the now of line 139.
still_due(t) == th_now[t] - last_refresh_time > url_refresh_interval

\* lines 143-146: the test under the lock; the thread enters _load_proxies
\* and sends the request of line 108.
CheckLocked(t) ==
  /\ th_pc[t] = "locked"
  /\ IF still_due(t)
     THEN /\ th_pc' = [th_pc EXCEPT ![t] = "loading"]
          /\ reloads' = started(reloads)
     ELSE /\ th_pc' = [th_pc EXCEPT ![t] = "release"]
          /\ UNCHANGED reloads
  /\ UNCHANGED <<th_now, refresh_lock, th_refused, proxies, proxy_index,
                 last_refresh_time, now>>

\* lines 108-134: the fetch ends and _load_proxies returns.
FinishLoad(t, outcome) ==
  /\ th_pc[t] = "loading"
  /\ LET old == [proxies |-> proxies, proxy_index |-> proxy_index,
                 last_refresh_time |-> last_refresh_time]
         new == load_proxies(old, "url", outcome, now)
     IN /\ proxies' = new.proxies
        /\ proxy_index' = new.proxy_index
        /\ last_refresh_time' = new.last_refresh_time
        /\ reloads' = ended_with(reloads, outcome.kind)
  /\ th_pc' = [th_pc EXCEPT ![t] = "release"]
  /\ UNCHANGED <<th_now, refresh_lock, th_refused, now>>

\* line 147
ReleaseLock(t) ==
  /\ th_pc[t] = "release"
  /\ refresh_lock' = {}
  /\ th_pc' = [th_pc EXCEPT ![t] = "idle"]
  /\ UNCHANGED <<th_now, th_refused, reloads, proxies, proxy_index,
                 last_refresh_time, now>>

\* An enabled middleware with the URL source, after __init__.
InitThreads ==
  /\ Init
  /\ enabled
  /\ proxy_source_type = "url"
  /\ mode = "random"
  /\ fail_timeout = 0

EnterStep == \E t \in Threads : EnterRefresh(t) /\ UNCHANGED not_thread_vars
AcquireStep == \E t \in Threads : AcquireLock(t) /\ UNCHANGED not_thread_vars
CheckStep == \E t \in Threads : CheckLocked(t) /\ UNCHANGED not_thread_vars
LoadStep ==
  \E t \in Threads, outcome \in FetchOutcomes :
    FinishLoad(t, outcome) /\ UNCHANGED not_thread_vars
ReleaseStep == \E t \in Threads : ReleaseLock(t) /\ UNCHANGED not_thread_vars

NextThreads ==
  EnterStep \/ AcquireStep \/ CheckStep \/ LoadStep \/ ReleaseStep \/ TickStep

SpecThreads == InitThreads /\ [][NextThreads]_vars

\* The parts of C16 that do not count fetches: at most one thread is inside
\* _load_proxies and it holds the lock; a thread that found the lock taken is
\* back outside without having waited or loaded; a thread is only inside
\* _load_proxies while the interval has elapsed.
RefreshGuarded ==
  /\ \A t, u \in Threads :
       (th_pc[t] = "loading" /\ th_pc[u] = "loading") => t = u
  /\ \A t \in Threads :
       th_pc[t] \in {"locked", "loading", "release"} <=> refresh_lock = {t}
  /\ \A t \in th_refused : th_pc[t] = "idle" /\ refresh_lock # {t}
  /\ \A t \in Threads : th_pc[t] = "loading" => refresh_due

\* C16 (as stated): over all interleavings, at most one thread is inside
\* _load_proxies, a thread that cannot take the lock returns without waiting
\* or reloading, and one expiry of the interval leads to at most one fetch.
C16_Original ==
  /\ RefreshGuarded
  /\ Len(reloads) <= 1

\* C16 (amended): the same, but one expiry of the interval leads to at most
\* one fetch that does not raise: a fetch is only started after every earlier
\* fetch of the same expiry has raised.
C16_OneReloadUnlessRaised ==
  /\ RefreshGuarded
  /\ \A i \in 1..Len(reloads) - 1 : reloads[i] \in {"RequestException", "Exception"}

\* A thread is fetching after an earlier fetch of the same expiry raised,
\* while another thread found the lock taken and left.
C16_Witness ==
  /\ Len(reloads) = 2
  /\ reloads[2] = "in flight"
  /\ \E t \in Threads : th_pc[t] = "loading"
  /\ th_refused # {}

(***************************************************************************)
(* The snippet manager: src/plugins/spider_snippet_manager_plugin.py.      *)
(***************************************************************************)
\* What the user types into the dialog.
SnippetNames == {"Basic CSS Selector (.get)", "Price"}
Categories == {"Selectors", "Items", "General"}

\* The dialog opened by Add has no snippet: snippet_data is {} (line 98).
NoSnippet == [id |-> "", name |-> "", category |-> ""]

\* get_snippet_data did not return: line 166 calls datetime.now(), and
\* datetime is the module (line 1), which has no attribute now.
AttributeError == [id |-> "", name |-> "AttributeError", category |-> ""]

\* get_snippet_data (lines 161-176): the id of the dialog's snippet is kept;
\* without one, line 166 is run.
get_snippet_data(snippet_data, name, category) ==
  IF snippet_data.id # ""
  THEN [id |-> snippet_data.id, name |-> name, category |-> category]
  ELSE AttributeError

\* Lines 442 and 478: [s for s in ... if s['id'] != snippet_id].
without_id(list, snippet_id) == SelectSeq(list, LAMBDA s : s.id # snippet_id)

\* Lines 442-445 and 478-481: the snippet leaves its category, and an empty
\* category is deleted.
remove_from(snips, category, snippet_id) ==
  LET rest == without_id(snips[category], snippet_id)
  IN IF rest = <<>> THEN [c \in DOMAIN snips \ {category} |-> snips[c]]
     ELSE put(snips, category, rest)

\* Lines 418-421 and 451-453.
append_to(snips, category, snippet) ==
  put(snips, category,
      Append(IF category \in DOMAIN snips THEN snips[category] ELSE <<>>, snippet))

\* len(all_snippets_list) of _save_snippets (lines 321-324).
RECURSIVE count_snippets(_)
count_snippets(snips) ==
  IF DOMAIN snips = {} THEN 0
  ELSE LET c == CHOOSE x \in DOMAIN snips : TRUE
       IN Len(snips[c]) + count_snippets([x \in DOMAIN snips \ {c} |-> snips[x]])

\* _save_snippets (lines 319-333): the file is rewritten, or an error is shown.
save_snippets(written) == IF written THEN "current" ELSE "stale"

\* _add_snippet (lines 410-424), the dialog accepted: the exception of
\* get_snippet_data (line 414) ends the slot before anything is stored.
AddSnippet(name, category, written) ==
  LET new_data == get_snippet_data(NoSnippet, name, category)
  IN /\ IF new_data = AttributeError
        THEN UNCHANGED <<snippets, snippets_file>>
        ELSE /\ snippets' = append_to(snippets, category, new_data)
             /\ snippets_file' = save_snippets(written)
     /\ snip_last' = [op |-> "add", before |-> snippets, category |-> category,
                      position |-> 0, raised |-> new_data = AttributeError]

\* _edit_snippet (lines 427-457) for the snippet selected in the tree, the
\* dialog accepted.
EditSnippet(category, position, name, new_category, written) ==
  /\ category \in DOMAIN snippets
  /\ position \in 1..Len(snippets[category])
  /\ LET snippet_data == snippets[category][position]
         edited_data == get_snippet_data(snippet_data, name, new_category)
         original_category == snippet_data.category
     IN snippets' = append_to(remove_from(snippets, original_category,
                                          edited_data.id),
                              new_category, edited_data)
  /\ snippets_file' = save_snippets(written)
  /\ snip_last' = [op |-> "edit", before |-> snippets, category |-> category,
                   position |-> position, raised |-> FALSE]

\* _delete_snippet (lines 460-486) for the snippet selected in the tree, the
\* question answered with Yes.
DeleteSnippet(category, position, written) ==
  /\ category \in DOMAIN snippets
  /\ position \in 1..Len(snippets[category])
  /\ LET snippet_data == snippets[category][position]
     IN snippets' = remove_from(snippets, snippet_data.category, snippet_data.id)
  /\ snippets_file' = save_snippets(written)
  /\ snip_last' = [op |-> "delete", before |-> snippets, category |-> category,
                   position |-> position, raised |-> FALSE]

InitSnippets == SnippetsIdle /\ IdleButSnippets

AddStep ==
  /\ \E name \in SnippetNames, category \in Categories, written \in BOOLEAN :
       AddSnippet(name, category, written)
  /\ UNCHANGED not_snippet_vars

EditStep ==
  /\ \E category \in Categories, position \in 1..Len(DefaultSnippets),
        name \in SnippetNames, new_category \in Categories, written \in BOOLEAN :
       EditSnippet(category, position, name, new_category, written)
  /\ UNCHANGED not_snippet_vars

DeleteStep ==
  /\ \E category \in Categories, position \in 1..Len(DefaultSnippets),
        written \in BOOLEAN :
       DeleteSnippet(category, position, written)
  /\ UNCHANGED not_snippet_vars

NextSnippets == AddStep \/ EditStep \/ DeleteStep

SpecSnippets == InitSnippets /\ [][NextSnippets]_vars

\* The places of the stored snippets: category and position.
Places(snips) ==
  {pl \in (DOMAIN snips) \X (1..Len(DefaultSnippets)) : pl[2] <= Len(snips[pl[1]])}

\* An edit or a delete of the selected snippet leaves every other snippet
\* that was stored before it stored in its category, unchanged: a delete
\* takes exactly one snippet away, an edit none.
OnlySelectedChanged ==
  snip_last.op \in {"edit", "delete"}
    => /\ \A pl \in Places(snip_last.before) :
            pl # <<snip_last.category, snip_last.position>>
              => /\ pl[1] \in DOMAIN snippets
                 /\ snip_last.before[pl[1]][pl[2]] \in Range(snippets[pl[1]])
       /\ count_snippets(snippets) =
            count_snippets(snip_last.before)
              - (IF snip_last.op = "delete" THEN 1 ELSE 0)

MaxManagers == 2

\* The configurations of this part: alerts on or off, e-mail on or off.
EmailAlertConfigs == {[DefaultAlertConfig EXCEPT !.enabled = e] : e \in BOOLEAN}

\* threading.Thread.is_alive() of a manager's email_thread.
is_alive(manager) == manager.email_thread \in {"check", "get", "send"}

\* Mutant: the queue of the old manager is handed to the new one.
fresh_queue_kept(old_queue) == old_queue

\* Line 267: queue.Queue().
fresh_queue(old_queue) == <<>>

\* _start_email_thread (lines 308-320).
start_email_thread(manager) ==
  IF is_alive(manager) THEN manager
  ELSE [manager EXCEPT !.email_thread_running = TRUE, !.email_thread = "check"]

\* _stop_email_thread (lines 322-327): the flag is cleared and the thread is
\* waited for, two seconds at most.
stop_email_thread(manager) ==
  IF is_alive(manager) THEN [manager EXCEPT !.email_thread_running = FALSE]
  ELSE manager

\* _queue_email_notification (lines 559-576) for task e.
queue_email_notification(manager, e) ==
  IF ~is_alive(manager) /\ ~manager.email THEN manager
  ELSE [start_email_thread(manager) EXCEPT !.email_queue = Append(@, e)]

\* trigger_alert (lines 428-475) with _handle_notification_types (lines
\* 477-495): an alert that is recorded is queued as e-mail when the
\* configuration switches e-mail on.
EmailTrigger(spider_name) ==
  /\ trigger_alert(spider_name)
  /\ LET m == Len(managers)
         made == alert_config.enabled /\ spider_name \notin alert_config.blacklisted
         e == [n |-> alert_count + 1, m |-> m]
         after == queue_email_notification(managers[m], e)
     IN IF made /\ managers[m].email
        THEN /\ managers' = [managers EXCEPT ![m] = after]
             /\ queued' = IF after.email_queue # managers[m].email_queue
                          THEN Append(queued, e) ELSE queued
        ELSE UNCHANGED <<managers, queued>>
  /\ UNCHANGED sent

\* _init_alert_manager (lines 1475-1485): the thread of the manager in place
\* is told to stop, and a new manager is created.
EmailReinit(new_config, email) ==
  /\ Len(managers) < MaxManagers
  /\ init_alert_manager(new_config)
  /\ LET m == Len(managers)
         created == [new_manager(email) EXCEPT
                       !.email_queue = fresh_queue(managers[m].email_queue)]
     IN managers' = Append([managers EXCEPT ![m] = stop_email_thread(managers[m])],
                           created)
  /\ UNCHANGED <<queued, sent>>

\* _email_worker (lines 329-354), the thread of manager m.
\* Line 331: the loop test.
WorkerCheck(m) ==
  /\ managers[m].email_thread = "check"
  /\ managers' = [managers EXCEPT ![m].email_thread =
                    IF managers[m].email_thread_running THEN "get" ELSE "exited"]
  /\ UNCHANGED <<queued, sent, alert_vars>>

\* Lines 335-338: a task is taken, or queue.Empty after two seconds.
WorkerGet(m) ==
  /\ managers[m].email_thread = "get"
  /\ managers' =
       IF managers[m].email_queue # <<>>
       THEN [managers EXCEPT ![m].email_thread = "send",
                             ![m].task = Head(managers[m].email_queue),
                             ![m].email_queue = Tail(@)]
       ELSE [managers EXCEPT ![m].email_thread = "check"]
  /\ UNCHANGED <<queued, sent, alert_vars>>

\* Lines 341-354: the task is passed to _send_email, and the loop goes on.
WorkerSend(m) ==
  /\ managers[m].email_thread = "send"
  /\ sent' = Append(sent, managers[m].task)
  /\ managers' = [managers EXCEPT ![m].email_thread = "check", ![m].task = 0]
  /\ UNCHANGED <<queued, alert_vars>>

InitEmail ==
  /\ alert_config \in EmailAlertConfigs
  /\ alert_history = <<>>
  /\ alert_count = 0
  /\ alert_last = NoAlertCall
  /\ \E email \in BOOLEAN : managers = <<new_manager(email)>>
  /\ queued = <<>>
  /\ sent = <<>>
  /\ IdleButAlertsAndEmail

EmailTriggerStep ==
  /\ \E spider_name \in SpiderNames : EmailTrigger(spider_name)
  /\ UNCHANGED not_alert_email_vars

EmailReinitStep ==
  /\ \E new_config \in EmailAlertConfigs, email \in BOOLEAN :
       EmailReinit(new_config, email)
  /\ UNCHANGED not_alert_email_vars

WorkerCheckStep ==
  /\ \E m \in 1..MaxManagers : m <= Len(managers) /\ WorkerCheck(m)
  /\ UNCHANGED not_alert_email_vars

WorkerGetStep ==
  /\ \E m \in 1..MaxManagers : m <= Len(managers) /\ WorkerGet(m)
  /\ UNCHANGED not_alert_email_vars

WorkerSendStep ==
  /\ \E m \in 1..MaxManagers : m <= Len(managers) /\ WorkerSend(m)
  /\ UNCHANGED not_alert_email_vars

\* A worker thread that can take a step.
WorkerNext == WorkerCheckStep \/ WorkerGetStep \/ WorkerSendStep

NextEmail == EmailTriggerStep \/ EmailReinitStep \/ WorkerNext

\* A step of the worker thread of manager m.
WorkerThread(m) ==
  /\ m <= Len(managers)
  /\ WorkerCheck(m) \/ WorkerGet(m) \/ WorkerSend(m)
  /\ UNCHANGED not_alert_email_vars

\* Alerts and saved settings come when they come; every live thread is
\* scheduled again and again.
SpecEmail ==
  InitEmail /\ [][NextEmail]_vars /\ \A m \in 1..MaxManagers : WF_vars(WorkerThread(m))

\* The tasks passed to _send_email, by number.
SentNumbers == {sent[i].n : i \in 1..Len(sent)}

\* C26: every e-mail task put on a queue is eventually passed to
\* _send_email; no task is passed twice, and the tasks of one queue are
\* passed in the order they were put.
C26_EveryQueuedEmailSent ==
  /\ [](\A i, j \in 1..Len(sent) :
          i < j => /\ sent[i] # sent[j]
                   /\ sent[i].m = sent[j].m => sent[i].n < sent[j].n)
  /\ \A n \in 1..MaxAlerts :
       (\E i \in 1..Len(queued) : queued[i].n = n) ~> (n \in SentNumbers)

\* C29: right after _init_alert_manager, at start-up and after every save of
\* the preferences, the plugin's manager has an empty alert history and an
\* empty e-mail queue, whatever the manager before it held.
C29_FreshManager ==
  alert_last.op = "init"
    => /\ alert_history = <<>>
       /\ managers[Len(managers)].email_queue = <<>>

\* The settings were saved while the manager in place had a record in its
\* history and a task on its queue.
C29_Witness ==
  /\ alert_last.op = "init"
  /\ alert_last.before # <<>>
  /\ Len(managers) >= 2
  /\ managers[Len(managers) - 1].email_queue # <<>>

(***************************************************************************)
(* The manual Send Email action: src/plugins/email_notifier_plugin.py.     *)
(*                                                                         *)
(* The form holds the name of a connection and the text of the recipients  *)
(* field, a sequence of comma-separated parts.  The progress dialog is     *)
(* modal: while it is open no other Send Email action can be made.         *)
(***************************************************************************)
MaxActions == 2

Ops == "ops@example.com"

\* The connections of the configuration: one with every SMTP field, one
\* whose password is empty.
Connections == {"gmail", "partial"}

required_missing(email_config) == email_config = "partial"

\* What the user has typed when the button is pressed: the connection combo
\* ("none" for an empty one) and the parts of the recipients field.
Forms ==
  [connection : Connections \cup {"none"},
   recipients_str : {<<"">>, <<Ops>>, <<"", "">>, <<Ops, "">>, <<Ops, Ops>>}]

\* Line 563: recipients_str.strip() is empty.
no_recipient_text(recipients_str) == recipients_str = <<"">>

\* Line 565: the non-blank parts.
recipients_of(recipients_str) == SelectSeq(recipients_str, LAMBDA r : r # "")

\* What connecting, logging in and sendmail can end in (lines 119-125).
SmtpOutcomes == {"ok", "refused"}

\* EmailTaskThread._run_email_task (lines 79-131): whether the thread hands
\* the message to server.sendmail and sendmail returns.
run_email_task(task_data, smtp) ==
  /\ task_data.recipients # <<>>
  /\ ~required_missing(task_data.email_config)
  /\ smtp = "ok"

\* EmailTaskThread(task_data) followed by thread.start() (lines 580-584 and
\* 588-598).
start_thread(threads, action, task_data) ==
  Append(threads, [action |-> action, task_data |-> task_data,
                   state |-> "running"])

\* _run_task_with_dialog (lines 573-601) up to the dialog.exec() of line 585.
run_task_with_dialog(task_type, task_data) ==
  IF task_type # "email"
  THEN UNCHANGED notifier_vars
  ELSE /\ send_actions' = send_actions + 1
       /\ task_threads' = start_thread(task_threads, send_actions + 1, task_data)
       /\ dialog_pc' = "first"
       /\ UNCHANGED smtp_sent

\* _send_email (lines 558-571), the slot of the Send Email button.
send_email(form) ==
  /\ dialog_pc = "idle"
  /\ send_actions < MaxActions
  /\ IF \/ form.connection = "none"
        \/ no_recipient_text(form.recipients_str)
        \/ recipients_of(form.recipients_str) = <<>>
     THEN UNCHANGED notifier_vars
     ELSE run_task_with_dialog(
            "email",
            [email_config |-> form.connection,
             recipients |-> recipients_of(form.recipients_str)])

\* EmailTaskThread.run (lines 62-72) of a started thread.
thread_run(i, smtp) ==
  /\ i \in DOMAIN task_threads
  /\ task_threads[i].state = "running"
  /\ task_threads' = [task_threads EXCEPT ![i].state = "finished"]
  /\ smtp_sent' = IF run_email_task(task_threads[i].task_data, smtp)
                  THEN Append(smtp_sent, task_threads[i].action)
                  ELSE smtp_sent
  /\ UNCHANGED <<dialog_pc, send_actions>>

\* The user closes the progress dialog.  TaskRunnerDialog.reject (lines
\* 149-151) keeps it open while its thread is running, and the Close button
\* is enabled by task_completed (line 145).  When the dialog.exec() of line
\* 585 returns, lines 587-601 start a thread for the same task_data and open
\* a dialog again; when that of line 601 returns, the slot returns.
dialog_closed ==
  /\ dialog_pc \in {"first", "second"}
  /\ task_threads[Len(task_threads)].state = "finished"
  /\ IF dialog_pc = "first"
     THEN /\ task_threads' =
               start_thread(task_threads, send_actions,
                            task_threads[Len(task_threads)].task_data)
          /\ dialog_pc' = "second"
     ELSE /\ dialog_pc' = "idle"
          /\ UNCHANGED task_threads
  /\ UNCHANGED <<send_actions, smtp_sent>>

InitNotifier == NotifierIdle /\ IdleButNotifier

SendEmailStep ==
  /\ \E form \in Forms : send_email(form)
  /\ UNCHANGED not_notifier_vars

ThreadRunStep ==
  /\ \E i \in 1..(2 * MaxActions), smtp \in SmtpOutcomes : thread_run(i, smtp)
  /\ UNCHANGED not_notifier_vars

DialogClosedStep == dialog_closed /\ UNCHANGED not_notifier_vars

NextNotifier == SendEmailStep \/ ThreadRunStep \/ DialogClosedStep

SpecNotifier == InitNotifier /\ [][NextNotifier]_vars

(***************************************************************************)
(* Properties of the manual Send Email action.                             *)
(***************************************************************************)

\* The threads an action started, and the messages sent for it.
ThreadsOf(a) == {i \in DOMAIN task_threads : task_threads[i].action = a}

SentFor(a) == {i \in DOMAIN smtp_sent : smtp_sent[i] = a}

\* C28: one Send Email action that reaches _run_task_with_dialog starts
\* exactly one EmailTaskThread for its task data, so its message is sent at
\* most once.
C28_OneThreadPerAction ==
  \A a \in 1..send_actions :
    /\ Cardinality(ThreadsOf(a)) = 1
    /\ Cardinality(SentFor(a)) <= 1

====
